---- MODULE Spec2Model ----
(***************************************************************************)
(* Model of rox, a tree-walking interpreter: scanner, recursive-descent     *)
(* parser, environment (scope chain) and evaluator.                         *)
(*                                                                          *)
(* Representation choices                                                   *)
(*   - a Rust String (source buffer, lexeme, variable name, string value)   *)
(*     is a sequence of one-character strings; Str turns it into a TLA+     *)
(*     string where the code formats it into a message or prints it;        *)
(*   - an f64 is an exact rational with a sign, plus the IEEE specials      *)
(*     (signed zero, +inf, -inf, NaN); rounding is not modelled;            *)
(*   - an Environment is the sequence of its scopes' HashMaps, the current  *)
(*     scope first and the outermost last: element 1 is `values`, the rest  *)
(*     is `enclosing` (absent when the sequence has one element).           *)
(*                                                                          *)
(* Specifications                                                           *)
(*   - SpecEnv: the Environment API called directly on a scope chain;       *)
(*   - SpecInterp: Interpreter::interpret on statement lists, blocks        *)
(*     included;                                                            *)
(*   - Spec: a source scanned, parsed and interpreted, or a token list      *)
(*     parsed and interpreted;                                              *)
(*   - SpecEval: Interpreter::evaluate on one operator expression;          *)
(*   - SpecRun: main of the binary, on a file or on the lines of stdin.     *)
(***************************************************************************)
EXTENDS Integers, Sequences, FiniteSets, TLC

VARIABLES
    pc,           \* position of the run: which entry point is executing
    scanner,      \* Scanner fields and the errors_encountered of scan_tokens
    parser,       \* Parser fields and the locals of Parser::parse
    environment,  \* Interpreter.environment
    frames,       \* call stack of Interpreter::interpret / visit_block
    output,       \* lines written by println! in visit_print
    result,       \* what the entry point returned
    call,         \* the last call made directly (Environment API, parse)
    interpreter,  \* the Interpreter of interpreter.rs: had_error
    process       \* the rox process: the lines left on stdin, the lines
                  \* written to stderr, the exit status

vars == <<pc, scanner, parser, environment, frames, output, result, call,
          interpreter, process>>

(***************************************************************************)
(* Bounds                                                                   *)
(***************************************************************************)
MaxDepth == 3

(***************************************************************************)
(* Strings                                                                  *)
(***************************************************************************)
RECURSIVE Str(_)
Str(s) == IF s = <<>> THEN "" ELSE Head(s) \o Str(Tail(s))

(***************************************************************************)
(* f64                                                                      *)
(***************************************************************************)
RECURSIVE Gcd(_, _)
Gcd(a, b) == IF b = 0 THEN a ELSE Gcd(b, a % b)

Abs(i) == IF i < 0 THEN -i ELSE i

F(neg, n, d) == [neg |-> neg, n |-> n, d |-> d]
NaN == F(FALSE, 0, 0)
Inf(neg) == F(neg, 1, 0)
Zero(neg) == F(neg, 0, 1)
IsNaN(x) == x.d = 0 /\ x.n = 0
IsInf(x) == x.d = 0 /\ x.n = 1
IsZero(x) == x.d # 0 /\ x.n = 0
Signed(x) == IF x.neg THEN -x.n ELSE x.n

\* the finite non-zero rational num/den (den > 0), in lowest terms
Ratio(num, den) ==
    LET g == Gcd(Abs(num), den)
    IN  F(num < 0, Abs(num) \div g, den \div g)

Int2F(i) == IF i = 0 THEN Zero(FALSE) ELSE Ratio(i, 1)

FNeg(x) == IF IsNaN(x) THEN NaN ELSE F(~x.neg, x.n, x.d)

FAdd(a, b) ==
    IF IsNaN(a) \/ IsNaN(b) THEN NaN
    ELSE IF IsInf(a) THEN (IF IsInf(b) /\ a.neg # b.neg THEN NaN ELSE a)
    ELSE IF IsInf(b) THEN b
    ELSE LET num == Signed(a) * b.d + Signed(b) * a.d
         IN  IF num = 0 THEN Zero(a.neg /\ b.neg) ELSE Ratio(num, a.d * b.d)

FMul(a, b) ==
    IF IsNaN(a) \/ IsNaN(b) THEN NaN
    ELSE IF (IsInf(a) /\ IsZero(b)) \/ (IsZero(a) /\ IsInf(b)) THEN NaN
    ELSE IF IsInf(a) \/ IsInf(b) THEN Inf(a.neg # b.neg)
    ELSE IF IsZero(a) \/ IsZero(b) THEN Zero(a.neg # b.neg)
    ELSE LET r == Ratio(a.n * b.n, a.d * b.d) IN F(a.neg # b.neg, r.n, r.d)

FDiv(a, b) ==
    IF IsNaN(a) \/ IsNaN(b) THEN NaN
    ELSE IF (IsInf(a) /\ IsInf(b)) \/ (IsZero(a) /\ IsZero(b)) THEN NaN
    ELSE IF IsInf(a) \/ IsZero(b) THEN Inf(a.neg # b.neg)
    ELSE IF IsInf(b) \/ IsZero(a) THEN Zero(a.neg # b.neg)
    ELSE LET r == Ratio(a.n * b.d, a.d * b.n) IN F(a.neg # b.neg, r.n, r.d)

FEq(a, b) ==
    /\ ~IsNaN(a)
    /\ ~IsNaN(b)
    /\ (IsZero(a) /\ IsZero(b)) \/ a = b

FLt(a, b) ==
    /\ ~IsNaN(a)
    /\ ~IsNaN(b)
    /\ IF IsInf(a) THEN a.neg /\ ~(IsInf(b) /\ b.neg)
       ELSE IF IsInf(b) THEN ~b.neg
       ELSE Signed(a) * b.d < Signed(b) * a.d


(***************************************************************************)
(* EvaluatedExpr                                                            *)
(***************************************************************************)
Nil == [tag |-> "Nil"]
String(v) == [tag |-> "String", v |-> v]
Number(v) == [tag |-> "Number", v |-> v]
Boolean(v) == [tag |-> "Boolean", v |-> v]

\* #[derive(PartialEq)] on EvaluatedExpr
EvaluatedExprEq(a, b) ==
    /\ a.tag = b.tag
    /\ CASE a.tag = "Nil" -> TRUE
         [] a.tag = "Number" -> FEq(a.v, b.v)
         [] OTHER -> a.v = b.v

(***************************************************************************)
(* InterpreterError and InterpreterResult                                   *)
(***************************************************************************)
TypeError(msg) == [variant |-> "TypeError", msg |-> msg]
RuntimeError(msg) == [variant |-> "RuntimeError", msg |-> msg]

Ok(v) == [ok |-> TRUE, v |-> v]
Err(e) == [ok |-> FALSE, e |-> e]

(***************************************************************************)
(* Environment                                                              *)
(***************************************************************************)
\* HashMap::new()
EmptyMap == [k \in {} |-> Nil]

\* HashMap::insert
Insert(map, k, v) == [x \in DOMAIN map \cup {k} |-> IF x = k THEN v ELSE map[x]]

\* Environment::default(): no values, no enclosing environment
DefaultEnvironment == <<EmptyMap>>

\* self.enclosing.is_some()
HasEnclosing(self) == Len(self) > 1

\* Environment::set_enclosing: the environment afterwards, or a panic
set_enclosing(self, enclosing) ==
    IF HasEnclosing(self)
    THEN [panic |-> TRUE, self |-> self]
    ELSE [panic |-> FALSE, self |-> self \o enclosing]

\* take_enclosing as a bug would have it: the enclosing environment is
\* returned with the scope being closed still in front of it
take_enclosing_keeping(self) ==
    [panic |-> ~HasEnclosing(self), ret |-> self, self |-> self]

\* Environment::take_enclosing: the environment taken out and what is left
\* of self, or a panic
take_enclosing(self) ==
    IF HasEnclosing(self)
    THEN [panic |-> FALSE, ret |-> Tail(self), self |-> <<Head(self)>>]
    ELSE [panic |-> TRUE, ret |-> self, self |-> self]

\* define as a bug would have it: an existing binding is kept
define_keeping(self, name, value) ==
    IF name \in DOMAIN self[1] THEN self
    ELSE [self EXCEPT ![1] = Insert(@, name, value)]

\* Environment::define
define(self, name, value) == [self EXCEPT ![1] = Insert(@, name, value)]

\* get as a bug would have it: the enclosing environments are not searched
get_current_only(self, name) ==
    IF name.lexeme \in DOMAIN self[1]
    THEN Ok(self[1][name.lexeme])
    ELSE Err(RuntimeError("Undefined variable " \o Str(name.lexeme)))

\* get as a bug would have it: a name bound nowhere reads as nil
get_nil_when_undefined(self, name) ==
    LET binding == { i \in 1..Len(self) : name.lexeme \in DOMAIN self[i] }
    IN  IF binding = {} THEN Ok(Nil)
        ELSE Ok(self[CHOOSE i \in binding : \A j \in binding : i <= j][name.lexeme])

\* Environment::get
RECURSIVE get(_, _)
get(self, name) ==
    IF name.lexeme \in DOMAIN self[1]
    THEN Ok(self[1][name.lexeme])
    ELSE IF HasEnclosing(self)
         THEN get(Tail(self), name)
         ELSE Err(RuntimeError("Undefined variable " \o Str(name.lexeme)))

\* assign as a bug would have it: a name not bound is declared
assign_declaring(self, name, value) ==
    [res |-> Ok(Nil), self |-> [self EXCEPT ![1] = Insert(@, name.lexeme, value)]]

\* Environment::assign: the result and the environment afterwards
assign(self, name, value) ==
    IF name.lexeme \in DOMAIN self[1]
    THEN [res |-> Ok(Nil),
          self |-> [self EXCEPT ![1] = Insert(@, name.lexeme, value)]]
    ELSE [res |-> Err(RuntimeError("Undefined variable '" \o Str(name.lexeme) \o "'")),
          self |-> self]

(***************************************************************************)
(* Token                                                                    *)
(***************************************************************************)
\* Token::new
Token(token_type, lexeme, line) ==
    [token_type |-> token_type, lexeme |-> lexeme, line |-> line]

(***************************************************************************)
(* Expr and Statement                                                       *)
(***************************************************************************)

new_binary(left, op, right) ==
    [kind |-> "Binary", left |-> left, op |-> op, right |-> right]
new_unary(op, expr) == [kind |-> "Unary", op |-> op, expr |-> expr]
new_boolean_literal(v) == [kind |-> "Literal", literal |-> [lit |-> "Boolean", v |-> v]]
new_nil_literal == [kind |-> "Literal", literal |-> [lit |-> "Nil"]]
new_number_literal(v) == [kind |-> "Literal", literal |-> [lit |-> "Number", v |-> v]]
new_string_literal(v) == [kind |-> "Literal", literal |-> [lit |-> "String", v |-> v]]
new_grouping(expr) == [kind |-> "Grouping", expr |-> expr]
new_variable(name) == [kind |-> "Variable", name |-> name]
\* Expr::new_assign, which Parser::assignment calls
new_assign(name, value) == [kind |-> "Assign", name |-> name, value |-> value]

\* Option<T>: None is the empty sequence, Some(v) the sequence of v alone
None == <<>>
Some(v) == <<v>>

new_expression_statement(expr) == [kind |-> "Expression", expr |-> expr]
new_print_statement(expr) == [kind |-> "Print", expr |-> expr]
new_var_statement(name, initializer) ==
    [kind |-> "Variable", name |-> name, initializer |-> initializer]
new_block_statement(statements) == [kind |-> "Block", statements |-> statements]

(***************************************************************************)
(* Interpreter: expressions                                                 *)
(* An evaluation returns the InterpreterResult and the environment as the   *)
(* evaluation left it: [res |-> Ok(value) or Err(error), env |-> ...].       *)
(***************************************************************************)
\* is_truthy, had zero and the empty string been falsy
is_truthy_zero_falsy(value) ==
    CASE value.tag = "Nil" -> FALSE
      [] value.tag = "String" -> value.v # <<>>
      [] value.tag = "Number" -> ~IsZero(value.v)
      [] value.tag = "Boolean" -> value.v

is_truthy(value) ==
    CASE value.tag = "Nil" -> FALSE
      [] value.tag = "String" -> TRUE
      [] value.tag = "Number" -> TRUE
      [] value.tag = "Boolean" -> value.v

\* the arms for - / * > >= < <=, had a left operand that is not a Number
\* been reported as the right one
NumberBinaryBlamingRight(sym, l, r, value) ==
    IF l.tag = "Number" /\ r.tag = "Number"
    THEN Ok(value)
    ELSE Err(TypeError("Right of " \o sym \o " binary should be a valid number"))

\* visit_binary's arms for - / * > >= < <=, which differ in the operation
\* and in the operator the message names
NumberBinary(sym, l, r, value) ==
    IF l.tag = "Number"
    THEN IF r.tag = "Number"
         THEN Ok(value)
         ELSE Err(TypeError("Right of " \o sym \o " binary should be a valid number"))
    ELSE Err(TypeError("Left of " \o sym \o " binary should be a valid number"))

\* visit_binary's match, had + taken a String and a Number together
BinaryOpCoercing(op, l, r) ==
    CASE op.token_type = "Minus" ->
            NumberBinary("-", l, r, Number(FAdd(l.v, FNeg(r.v))))
      [] op.token_type = "Slash" ->
            NumberBinary("/", l, r, Number(FDiv(l.v, r.v)))
      [] op.token_type = "Star" ->
            NumberBinary("*", l, r, Number(FMul(l.v, r.v)))
      [] op.token_type = "Plus" ->
            CASE l.tag = "Number" /\ r.tag = "Number" ->
                    Ok(Number(FAdd(l.v, r.v)))
              [] l.tag = "String" /\ r.tag = "String" ->
                    Ok(String(l.v \o r.v))
              [] {l.tag, r.tag} = {"Number", "String"} ->
                    Ok(String(IF l.tag = "String" THEN l.v ELSE r.v))
              [] OTHER ->
                    Err(TypeError("Cannot evaluate + operand, left expression should be a string or number"))
      [] op.token_type = "Greater" ->
            NumberBinary(">", l, r, Boolean(FLt(r.v, l.v)))
      [] op.token_type = "GreaterEqual" ->
            NumberBinary(">=", l, r, Boolean(FLt(r.v, l.v) \/ FEq(r.v, l.v)))
      [] op.token_type = "Less" ->
            NumberBinary("<", l, r, Boolean(FLt(l.v, r.v)))
      [] op.token_type = "LessEqual" ->
            NumberBinary("<=", l, r, Boolean(FLt(l.v, r.v) \/ FEq(l.v, r.v)))
      [] op.token_type = "EqualEqual" -> Ok(Boolean(EvaluatedExprEq(l, r)))
      [] op.token_type = "BangEqual" -> Ok(Boolean(~EvaluatedExprEq(l, r)))
      [] OTHER ->
            Err(TypeError("Operand " \o op.token_type \o " not supported in binary expression"))

\* visit_binary's match on the operator, the operands evaluated
BinaryOp(op, l, r) ==
    CASE op.token_type = "Minus" ->
            NumberBinary("-", l, r, Number(FAdd(l.v, FNeg(r.v))))
      [] op.token_type = "Slash" ->
            NumberBinary("/", l, r, Number(FDiv(l.v, r.v)))
      [] op.token_type = "Star" ->
            NumberBinary("*", l, r, Number(FMul(l.v, r.v)))
      [] op.token_type = "Plus" ->
            CASE l.tag = "Number" ->
                    IF r.tag = "Number"
                    THEN Ok(Number(FAdd(l.v, r.v)))
                    ELSE Err(TypeError("Right of + binary should be a valid number when left is a number"))
              [] l.tag = "String" ->
                    IF r.tag = "String"
                    THEN Ok(String(l.v \o r.v))
                    ELSE Err(TypeError("Right of + binary should be a valid string when left is a string"))
              [] OTHER ->
                    Err(TypeError("Cannot evaluate + operand, left expression should be a string or number"))
      [] op.token_type = "Greater" ->
            NumberBinary(">", l, r, Boolean(FLt(r.v, l.v)))
      [] op.token_type = "GreaterEqual" ->
            NumberBinary(">=", l, r, Boolean(FLt(r.v, l.v) \/ FEq(r.v, l.v)))
      [] op.token_type = "Less" ->
            NumberBinary("<", l, r, Boolean(FLt(l.v, r.v)))
      [] op.token_type = "LessEqual" ->
            NumberBinary("<=", l, r, Boolean(FLt(l.v, r.v) \/ FEq(l.v, r.v)))
      [] op.token_type = "EqualEqual" -> Ok(Boolean(EvaluatedExprEq(l, r)))
      [] op.token_type = "BangEqual" -> Ok(Boolean(~EvaluatedExprEq(l, r)))
      [] OTHER ->
            Err(TypeError("Operand " \o op.token_type \o " not supported in binary expression"))

\* visit_unary's match on the operator, the operand evaluated
UnaryOp(op, right) ==
    CASE op.token_type = "Minus" ->
            IF right.tag = "Number"
            THEN Ok(Number(FNeg(right.v)))
            ELSE Err(TypeError("Expected f64 after unary operator -"))
      [] op.token_type = "Bang" -> Ok(Boolean(~is_truthy(right)))
      [] OTHER ->
            Err(TypeError("Operand " \o op.token_type \o " not supported in unary expression"))

visit_literal(literal) ==
    CASE literal.lit = "Boolean" -> Boolean(literal.v)
      [] literal.lit = "String" -> String(literal.v)
      [] literal.lit = "Nil" -> Nil
      [] literal.lit = "Number" -> Number(literal.v)

RECURSIVE evaluate(_, _)

visit_unary(self, unary) ==
    LET right == evaluate(self, unary.expr)
    IN  IF ~right.res.ok THEN right
        ELSE [res |-> UnaryOp(unary.op, right.res.v), env |-> right.env]

visit_binary(self, binary) ==
    LET left == evaluate(self, binary.left)
    IN  IF ~left.res.ok THEN left
        ELSE LET right == evaluate(left.env, binary.right)
             IN  IF ~right.res.ok THEN right
                 ELSE [res |-> BinaryOp(binary.op, left.res.v, right.res.v),
                       env |-> right.env]

visit_grouping(self, grouping) == evaluate(self, grouping.expr)

visit_variable_expr(self, variable) ==
    [res |-> get(self, variable.name), env |-> self]

\* the evaluator's arm for Assign: evaluate the right side, Environment
\* assign, the result is the assigned value
visit_assign(self, assignment) ==
    LET value == evaluate(self, assignment.value)
    IN  IF ~value.res.ok THEN value
        ELSE LET a == assign(value.env, assignment.name, value.res.v)
             IN  IF ~a.res.ok
                 THEN [res |-> a.res, env |-> a.self]
                 ELSE [res |-> Ok(value.res.v), env |-> a.self]

\* Interpreter::evaluate, through Expr::accept
evaluate(self, expr) ==
    CASE expr.kind = "Unary" -> visit_unary(self, expr)
      [] expr.kind = "Binary" -> visit_binary(self, expr)
      [] expr.kind = "Grouping" -> visit_grouping(self, expr)
      [] expr.kind = "Literal" ->
            [res |-> Ok(visit_literal(expr.literal)), env |-> self]
      [] expr.kind = "Variable" -> visit_variable_expr(self, expr)
      [] expr.kind = "Assign" -> visit_assign(self, expr)

(***************************************************************************)
(* Interpreter: statements                                                  *)
(* An execution returns the InterpreterResult, the environment as it left   *)
(* it and the lines it printed.                                             *)
(***************************************************************************)
\* the decimal digits of a natural number
RECURSIVE Digits(_)
Digits(n) ==
    LET d == <<"0", "1", "2", "3", "4", "5", "6", "7", "8", "9">>[(n % 10) + 1]
    IN  IF n < 10 THEN d ELSE Digits(n \div 10) \o d

\* the digits after the decimal point of rem/den (rem < den), at most `left`
RECURSIVE Fraction(_, _, _)
Fraction(rem, den, left) ==
    IF rem = 0 \/ left = 0 THEN ""
    ELSE Digits((rem * 10) \div den) \o Fraction((rem * 10) % den, den, left - 1)

\* f64::to_string
F64ToString(x) ==
    IF IsNaN(x) THEN "NaN"
    ELSE (IF x.neg THEN "-" ELSE "") \o
         (IF IsInf(x) THEN "inf"
          ELSE IF x.n % x.d = 0 THEN Digits(x.n \div x.d)
          ELSE Digits(x.n \div x.d) \o "." \o Fraction(x.n % x.d, x.d, 17))

\* impl ToString for EvaluatedExpr
to_string(value) ==
    CASE value.tag = "Nil" -> "nil"
      [] value.tag = "String" -> Str(value.v)
      [] value.tag = "Number" -> F64ToString(value.v)
      [] value.tag = "Boolean" -> IF value.v THEN "true" ELSE "false"

visit_print(self, statement) ==
    LET value == evaluate(self, statement.expr)
    IN  IF ~value.res.ok
        THEN [res |-> value.res, env |-> value.env, out |-> <<>>]
        ELSE [res |-> Ok(Nil), env |-> value.env, out |-> <<to_string(value.res.v)>>]

visit_expression(self, statement) ==
    LET value == evaluate(self, statement.expr)
    IN  IF ~value.res.ok
        THEN [res |-> value.res, env |-> value.env, out |-> <<>>]
        ELSE [res |-> Ok(Nil), env |-> value.env, out |-> <<>>]

\* visit_variable, had the name been defined as nil before the initializer
\* is evaluated
visit_variable_defining_first(self, variable) ==
    IF variable.initializer # None
    THEN LET value == evaluate(define(self, variable.name.lexeme, Nil),
                               variable.initializer[1])
         IN  IF ~value.res.ok
             THEN [res |-> value.res, env |-> value.env, out |-> <<>>]
             ELSE [res |-> Ok(Nil),
                   env |-> define(value.env, variable.name.lexeme, value.res.v),
                   out |-> <<>>]
    ELSE [res |-> Ok(Nil),
          env |-> define(self, variable.name.lexeme, Nil),
          out |-> <<>>]

visit_variable(self, variable) ==
    IF variable.initializer # None
    THEN LET value == evaluate(self, variable.initializer[1])
         IN  IF ~value.res.ok
             THEN [res |-> value.res, env |-> value.env, out |-> <<>>]
             ELSE [res |-> Ok(Nil),
                   env |-> define(value.env, variable.name.lexeme, value.res.v),
                   out |-> <<>>]
    ELSE [res |-> Ok(Nil),
          env |-> define(self, variable.name.lexeme, Nil),
          out |-> <<>>]

\* Interpreter::execute, through Statement::accept, of a statement that is
\* not a Block
execute(self, statement) ==
    CASE statement.kind = "Expression" -> visit_expression(self, statement)
      [] statement.kind = "Print" -> visit_print(self, statement)
      [] statement.kind = "Variable" -> visit_variable(self, statement)

(***************************************************************************)
(* Interpreter: the run of interpret                                        *)
(* frames is the call stack: frames[1] is the loop of interpret over the    *)
(* top-level statements, each further frame the loop of one visit_block;    *)
(* index counts the statements of the frame that have completed.  While an  *)
(* Err is being returned up the stack, result holds it.                     *)
(***************************************************************************)
Frame(statements) == [statements |-> statements, index |-> 0]
Top == frames[Len(frames)]
AtEnd == Top.index = Len(Top.statements)
CurrentStatement == Top.statements[Top.index + 1]
Running == pc = "interpret" /\ result = None
Completed(stack) == [stack EXCEPT ![Len(stack)].index = @ + 1]

\* the loop as a bug would have it: an Err is dropped and the loop goes on
ExecuteStatementDroppingErr ==
    /\ Running
    /\ ~AtEnd
    /\ CurrentStatement.kind # "Block"
    /\ LET r == execute(environment, CurrentStatement)
       IN  /\ environment' = r.env
           /\ output' = output \o r.out
    /\ frames' = Completed(frames)
    /\ UNCHANGED <<pc, scanner, parser, result, call, interpreter, process>>

\* one iteration of the loop of interpret, or of a block's loop, on a
\* statement that is not a Block: self.execute(s)?
ExecuteStatement ==
    /\ Running
    /\ ~AtEnd
    /\ CurrentStatement.kind # "Block"
    /\ LET r == execute(environment, CurrentStatement)
       IN  /\ environment' = r.env
           /\ output' = output \o r.out
           /\ frames' = IF r.res.ok THEN Completed(frames) ELSE frames
           /\ result' = IF r.res.ok THEN None ELSE Some(r.res)
    /\ UNCHANGED <<pc, scanner, parser, call, interpreter, process>>

\* visit_block, entry: a fresh environment whose enclosing environment is
\* the current one becomes the current one
VisitBlockEnter ==
    /\ Running
    /\ ~AtEnd
    /\ CurrentStatement.kind = "Block"
    /\ LET fresh == set_enclosing(DefaultEnvironment, environment)
       IN  /\ ~fresh.panic
           /\ environment' = fresh.self
    /\ frames' = Append(frames, Frame(CurrentStatement.statements))
    /\ UNCHANGED <<pc, scanner, parser, output, result, call,
                 interpreter, process>>

\* visit_block, exit: after the last statement, or with the Err of the
\* statement that failed, the enclosing environment is taken back out
VisitBlockExit ==
    /\ pc = "interpret"
    /\ Len(frames) > 1
    /\ result # None \/ AtEnd
    /\ LET taken == take_enclosing(environment)
       IN  /\ ~taken.panic
           /\ environment' = taken.ret
    /\ frames' = LET caller == SubSeq(frames, 1, Len(frames) - 1)
                 IN  IF result = None THEN Completed(caller) ELSE caller
    /\ UNCHANGED <<pc, scanner, parser, output, result, call,
                 interpreter, process>>

\* interpret returns: Ok(()) after the last statement, or the Err of the
\* statement that failed
InterpretReturn ==
    /\ pc = "interpret"
    /\ Len(frames) = 1
    /\ result # None \/ AtEnd
    /\ result' = IF result = None THEN Some(Ok(Nil)) ELSE result
    /\ pc' = "done"
    /\ UNCHANGED <<scanner, parser, environment, frames, output, call,
                 interpreter, process>>

(***************************************************************************)
(* Scanner                                                                  *)
(* The source buffer is a sequence of characters.  The code indexes it two  *)
(* ways: chars().nth(i) counts characters, while len() and the slices       *)
(* [a..b] count UTF-8 bytes; both are modelled as they are.                 *)
(***************************************************************************)
Digit == {"0", "1", "2", "3", "4", "5", "6", "7", "8", "9"}
Alpha ==
    {"a", "b", "c", "d", "e", "f", "g", "h", "i", "j", "k", "l", "m", "n",
     "o", "p", "q", "r", "s", "t", "u", "v", "w", "x", "y", "z",
     "A", "B", "C", "D", "E", "F", "G", "H", "I", "J", "K", "L", "M", "N",
     "O", "P", "Q", "R", "S", "T", "U", "V", "W", "X", "Y", "Z", "_"}

\* the byte offset of character number i (from 0) of s; "U+00E9" stands for
\* a character that UTF-8 encodes in two bytes, every other for one of one
RECURSIVE ByteOffset(_, _)
ByteOffset(s, i) ==
    IF i = 0 THEN 0
    ELSE ByteOffset(s, i - 1) + (IF s[i] = "U+00E9" THEN 2 ELSE 1)

\* str::len
ByteLen(s) == ByteOffset(s, Len(s))

\* &s[a..b]: the characters between two byte offsets, or a panic when an
\* offset is past the end or inside a character
ByteSlice(s, a, b) ==
    LET at(o) == { i \in 0..Len(s) : ByteOffset(s, i) = o }
    IN  IF a > b \/ at(a) = {} \/ at(b) = {}
        THEN [panic |-> TRUE, text |-> <<>>]
        ELSE [panic |-> FALSE,
              text |-> SubSeq(s, (CHOOSE i \in at(a) : TRUE) + 1,
                              CHOOSE i \in at(b) : TRUE)]

\* s.chars().nth(i)
Nth(s, i) == IF i < Len(s) THEN Some(s[i + 1]) ELSE None

\* the reserved words
KEYWORDS ==
    ( <<"a", "n", "d">> :> "And" ) @@
    ( <<"c", "l", "a", "s", "s">> :> "Class" ) @@
    ( <<"e", "l", "s", "e">> :> "Else" ) @@
    ( <<"f", "a", "l", "s", "e">> :> "False" ) @@
    ( <<"f", "o", "r">> :> "For" ) @@
    ( <<"f", "u", "n">> :> "Fun" ) @@
    ( <<"i", "f">> :> "If" ) @@
    ( <<"n", "i", "l">> :> "Nil" ) @@
    ( <<"o", "r">> :> "Or" ) @@
    ( <<"p", "r", "i", "n", "t">> :> "Print" ) @@
    ( <<"r", "e", "t", "u", "r", "n">> :> "Return" ) @@
    ( <<"s", "u", "p", "e", "r">> :> "Super" ) @@
    ( <<"t", "h", "i", "s">> :> "This" ) @@
    ( <<"t", "r", "u", "e">> :> "True" ) @@
    ( <<"w", "h", "i", "l", "e">> :> "While" ) @@
    ( <<"v", "a", "r">> :> "Var" )

\* InternalRoxError::SyntaxError
SyntaxError(line, message) ==
    [variant |-> "SyntaxError", line |-> line, message |-> message]

\* what scan_token returns, with the scanner as it left it: Ok(Some(token)),
\* Ok(None), Err(error), or a panic
Scanned(self, token) == [self |-> self, st |-> "token", v |-> token]
Skipped(self) == [self |-> self, st |-> "none", v |-> <<>>]
ScanErr(self, error) == [self |-> self, st |-> "err", v |-> error]
ScanPanic(self) == [self |-> self, st |-> "panic", v |-> <<>>]

\* a `while <peek is (or is not) in set> { advance }` loop: the
\* current_index it stops at
RECURSIVE AdvanceWhile(_, _, _, _)
AdvanceWhile(source, index, set, member) ==
    IF Nth(source, index) # None /\ (Nth(source, index)[1] \in set) = member
    THEN AdvanceWhile(source, index + 1, set, member)
    ELSE index

\* Scanner::build_simple_token
build_simple_token(self, token_type) ==
    LET lexeme == ByteSlice(self.source_buffer, self.start_index, self.current_index)
    IN  IF lexeme.panic THEN ScanPanic(self)
        ELSE Scanned(self, Token(token_type, lexeme.text, self.line_index))

\* Scanner::build_complex_token, on a slice of the source buffer
build_complex_token(self, token_type, lexeme) ==
    IF lexeme.panic THEN ScanPanic(self)
    ELSE Scanned(self, Token(token_type, lexeme.text, self.line_index))

\* Scanner::advance_if_equal
advance_if_equal(self, expected) ==
    IF Nth(self.source_buffer, self.current_index) = Some(expected)
    THEN [self EXCEPT !.current_index = @ + 1]
    ELSE self

\* the arms of scan_token for ! = < >: the token is `with` when the next
\* character is = and `without` otherwise
OneOrTwo(self, with, without) ==
    LET next == advance_if_equal(self, "=")
    IN  build_simple_token(next, IF next # self THEN with ELSE without)

\* Scanner::scan_string
scan_string(self) ==
    LET closing == AdvanceWhile(self.source_buffer, self.current_index, {"\""}, FALSE)
        newlines == { i \in self.current_index..(closing - 1) :
                        self.source_buffer[i + 1] = "\n" }
        at_quote == [self EXCEPT !.current_index = closing,
                                 !.line_index = @ + Cardinality(newlines)]
        after == [at_quote EXCEPT !.current_index = @ + 1]
    IN  IF Nth(self.source_buffer, closing) = None
        THEN ScanErr(at_quote, SyntaxError(at_quote.line_index, "Unterminated string."))
        ELSE build_complex_token(after, "String",
                ByteSlice(self.source_buffer, after.start_index + 1,
                          after.current_index - 1))

\* scan_number, had a `.` after the digits been taken without a look at
\* the character after it
scan_number_taking_any_dot(self) ==
    LET source == self.source_buffer
        whole == AdvanceWhile(source, self.current_index, Digit, TRUE)
        fraction ==
            IF Nth(source, whole) = Some(".")
            THEN AdvanceWhile(source, whole + 1, Digit, TRUE)
            ELSE whole
        after == [self EXCEPT !.current_index = fraction]
    IN  build_complex_token(after, "Number",
            ByteSlice(source, after.start_index, after.current_index))

\* Scanner::scan_number
scan_number(self) ==
    LET source == self.source_buffer
        whole == AdvanceWhile(source, self.current_index, Digit, TRUE)
        fraction ==
            IF /\ Nth(source, whole) = Some(".")
               /\ Nth(source, whole + 1) # None
               /\ Nth(source, whole + 1)[1] \in Digit
            THEN AdvanceWhile(source, whole + 1, Digit, TRUE)
            ELSE whole
        after == [self EXCEPT !.current_index = fraction]
    IN  build_complex_token(after, "Number",
            ByteSlice(source, after.start_index, after.current_index))

scan_identifier_by_keyword_prefix(self) ==
    LET source == self.source_buffer
        after == [self EXCEPT !.current_index =
                    AdvanceWhile(source, self.current_index, Alpha \cup Digit, TRUE)]
        text == ByteSlice(source, after.start_index, after.current_index)
        prefixes == { k \in DOMAIN KEYWORDS :
                        /\ Len(k) <= Len(text.text)
                        /\ SubSeq(text.text, 1, Len(k)) = k }
    IN  IF text.panic THEN ScanPanic(after)
        ELSE IF prefixes # {}
             THEN build_complex_token(after, KEYWORDS[CHOOSE k \in prefixes : TRUE], text)
             ELSE build_complex_token(after, "Identifier", text)

\* Scanner::scan_identifier
scan_identifier(self) ==
    LET source == self.source_buffer
        after == [self EXCEPT !.current_index =
                    AdvanceWhile(source, self.current_index, Alpha \cup Digit, TRUE)]
        text == ByteSlice(source, after.start_index, after.current_index)
    IN  IF text.panic THEN ScanPanic(after)
        ELSE IF text.text \in DOMAIN KEYWORDS
             THEN build_complex_token(after, KEYWORDS[text.text], text)
             ELSE build_complex_token(after, "Identifier", text)

\* Scanner::scan_token, the first character taken by Scanner::advance
scan_token(scanner_before) ==
    LET c == Nth(scanner_before.source_buffer, scanner_before.current_index)
        self == [scanner_before EXCEPT !.current_index = @ + 1]
    IN  IF c = None THEN ScanPanic(self)
        ELSE CASE c[1] = "(" -> build_simple_token(self, "LeftParen")
               [] c[1] = ")" -> build_simple_token(self, "RightParen")
               [] c[1] = "{" -> build_simple_token(self, "LeftBrace")
               [] c[1] = "}" -> build_simple_token(self, "RightBrace")
               [] c[1] = "," -> build_simple_token(self, "Comma")
               [] c[1] = "." -> build_simple_token(self, "Dot")
               [] c[1] = "-" -> build_simple_token(self, "Minus")
               [] c[1] = "+" -> build_simple_token(self, "Plus")
               [] c[1] = ";" -> build_simple_token(self, "Semicolon")
               [] c[1] = "*" -> build_simple_token(self, "Star")
               [] c[1] = "!" -> OneOrTwo(self, "BangEqual", "Bang")
               [] c[1] = "=" -> OneOrTwo(self, "EqualEqual", "Equal")
               [] c[1] = "<" -> OneOrTwo(self, "LessEqual", "Less")
               [] c[1] = ">" -> OneOrTwo(self, "GreateEqual", "Greater")
               [] c[1] = "/" ->
                    LET next == advance_if_equal(self, "/")
                    IN  IF next # self
                        THEN Skipped([next EXCEPT !.current_index =
                                AdvanceWhile(next.source_buffer, next.current_index,
                                             {"\n"}, FALSE)])
                        ELSE build_simple_token(self, "Slash")
               [] c[1] = "\"" -> scan_string(self)
               [] c[1] \in {" ", "\r", "\t"} -> Skipped(self)
               [] c[1] = "\n" -> Skipped([self EXCEPT !.line_index = @ + 1])
               [] c[1] \in Digit -> scan_number(self)
               [] c[1] \in Alpha -> scan_identifier(self)
               [] OTHER ->
                    ScanErr(self, SyntaxError(self.line_index, "Unexpected character"))

(***************************************************************************)
(* Parser                                                                   *)
(* self is [tokens, current_index].  A rule returns the parser as it left   *)
(* it and Ok(value), Err(ParserError) or a panic; `?` hands an Err on, and  *)
(* a panic unwinds the same way.                                            *)
(***************************************************************************)
ParserError(token, msg) == [token |-> token, msg |-> msg]

Parsed(self, v) == [self |-> self, st |-> "ok", v |-> v]
ParseErr(self, error) == [self |-> self, st |-> "err", v |-> error]
ParsePanic(self) == [self |-> self, st |-> "panic", v |-> <<>>]

\* self.tokens.get(self.current_index) is Some: Parser::peek does not panic
InRange(self) == self.current_index < Len(self.tokens)

\* Parser::peek, where the token exists
peek(self) == self.tokens[self.current_index + 1]

\* Parser::check, where peek does not panic
check(self, token_type) == peek(self).token_type = token_type

\* Parser::previous, where the token exists
previous(self) == self.tokens[self.current_index]

\* Parser::advance: the parser afterwards; panic when peek has no token, or
\* previous() has none to return
advance(self) ==
    IF ~InRange(self) THEN [self |-> self, panic |-> TRUE]
    ELSE LET after == IF peek(self).token_type # "Eof"
                      THEN [self EXCEPT !.current_index = @ + 1]
                      ELSE self
         IN  [self |-> after, panic |-> after.current_index = 0]

\* Parser::advance_if_token_type_matches: the parser afterwards, advanced
\* when the token matched.  Where peek would panic the parser is returned
\* as it is: every caller that goes on without a match comes to a consume,
\* to the end of primary or to the loop of parse with the parser unchanged,
\* and the panic is raised there.
advance_if_token_type_matches(self, token_types) ==
    IF InRange(self) /\ peek(self).token_type \in token_types
    THEN advance(self).self
    ELSE self

\* Parser::consume
consume(self, token_type, error_msg) ==
    IF ~InRange(self) THEN ParsePanic(self)
    ELSE IF check(self, token_type)
         THEN LET after == advance(self).self IN Parsed(after, previous(after))
         ELSE ParseErr(self, ParserError(peek(self), error_msg))

\* Parser::remove_previous: the parser afterwards and the token removed
remove_previous(self) ==
    [self |-> [self EXCEPT
                 !.current_index = @ - 1,
                 !.tokens = SubSeq(@, 1, self.current_index - 1)
                              \o SubSeq(@, self.current_index + 1, Len(@))],
     token |-> self.tokens[self.current_index]]

\* the natural number a run of digits spells
RECURSIVE Natural(_)
Natural(digits) ==
    IF digits = <<>> THEN 0
    ELSE Natural(SubSeq(digits, 1, Len(digits) - 1)) * 10
            + (CHOOSE v \in 0..9 : Digits(v) = digits[Len(digits)])

\* lexeme.parse::<f64>() of a lexeme made of a run of digits, or of two runs
\* of digits with a dot between them
ParseF64(lexeme) ==
    LET dots == { i \in 1..Len(lexeme) : lexeme[i] = "." }
        digits == SelectSeq(lexeme, LAMBDA c : c # ".")
        places == IF dots = {} THEN 0 ELSE Len(lexeme) - (CHOOSE i \in dots : TRUE)
        scale == Natural(<<"1">> \o [i \in 1..places |-> "0"])
    IN  IF Natural(digits) = 0 THEN Zero(FALSE)
        ELSE Ratio(Natural(digits), scale)

(* In the rules below a Result that `?` is applied to is the argument of a *)
(* local operator, which returns an Err (or a panic) as it is and goes on   *)
(* with an Ok.                                                              *)
RECURSIVE expression(_), unary(_), factor(_), term(_), comparison(_)

\* Parser::primary
primary(self) ==
    LET boolean == advance_if_token_type_matches(self, {"False", "True"})
        nil == advance_if_token_type_matches(self, {"Nil"})
        string == advance_if_token_type_matches(self, {"String"})
        number == advance_if_token_type_matches(self, {"Number"})
        identifier == advance_if_token_type_matches(self, {"Identifier"})
        paren == advance_if_token_type_matches(self, {"LeftParen"})
        removed(matched) == remove_previous(matched)
        grouping(expr, closing) ==
            IF expr.st # "ok" THEN expr
            ELSE IF closing.st # "ok" THEN closing
            ELSE Parsed(closing.self, new_grouping(expr.v))
        closed(expr) ==
            grouping(expr, consume(expr.self, "RightParen",
                                   "Expect ')' after expression."))
    IN  CASE boolean # self ->
                Parsed(removed(boolean).self,
                       new_boolean_literal(removed(boolean).token.token_type = "True"))
          [] nil # self -> Parsed(nil, new_nil_literal)
          [] string # self ->
                Parsed(removed(string).self,
                       new_string_literal(removed(string).token.lexeme))
          [] number # self ->
                Parsed(removed(number).self,
                       new_number_literal(ParseF64(removed(number).token.lexeme)))
          [] identifier # self ->
                Parsed(identifier, new_variable(previous(identifier)))
          [] paren # self -> closed(expression(paren))
          [] OTHER ->
                IF InRange(self)
                THEN ParseErr(self, ParserError(peek(self), "Expected expression"))
                ELSE ParsePanic(self)

\* Parser::unary
unary(self) ==
    LET matched == advance_if_token_type_matches(self, {"Bang", "Minus"})
        applied(op, right) ==
            IF right.st # "ok" THEN right
            ELSE Parsed(right.self, new_unary(op.token, right.v))
        operated(op) == applied(op, unary(op.self))
    IN  IF matched # self THEN operated(remove_previous(matched))
        ELSE primary(self)

(* equality, comparison, term and factor have one shape.  operand parses   *)
(* an operand by the rule of the next tier: the first one (left is empty),  *)
(* or the right operand of the operator just removed from the tokens (left  *)
(* is the expr so far and that operator).  loop makes expr the operand, or  *)
(* the Binary of left and the operand, and tests the while condition.       *)
\* Parser::factor
factor(self) ==
    LET RECURSIVE operand(_, _), loop(_, _)
        loop(left, right) ==
            IF right.st # "ok" THEN right
            ELSE LET expr == IF left = <<>> THEN right.v
                             ELSE new_binary(left[1], left[2], right.v)
                     matched == advance_if_token_type_matches(right.self,
                                   {"Slash", "Star"})
                 IN  IF matched = right.self THEN Parsed(right.self, expr)
                     ELSE operand(<<expr, remove_previous(matched).token>>,
                                  remove_previous(matched).self)
        operand(left, parser_now) == loop(left, unary(parser_now))
    IN  operand(<<>>, self)

\* term as a bug would have it: + - * / in one tier
term_one_tier(self) ==
    LET RECURSIVE operand(_, _), loop(_, _)
        loop(left, right) ==
            IF right.st # "ok" THEN right
            ELSE LET expr == IF left = <<>> THEN right.v
                             ELSE new_binary(left[1], left[2], right.v)
                     matched == advance_if_token_type_matches(right.self,
                                   {"Minus", "Plus", "Slash", "Star"})
                 IN  IF matched = right.self THEN Parsed(right.self, expr)
                     ELSE operand(<<expr, remove_previous(matched).token>>,
                                  remove_previous(matched).self)
        operand(left, parser_now) == loop(left, unary(parser_now))
    IN  operand(<<>>, self)

\* term as a bug would have it: the right operand is the rest of the chain
term_right_associative(self) ==
    LET built(left, op, right) ==
            IF right.st # "ok" THEN right
            ELSE Parsed(right.self, new_binary(left.v, op.token, right.v))
        operated(left, op) == built(left, op, term(op.self))
        rest(left, matched) ==
            IF left.st # "ok" \/ matched = left.self THEN left
            ELSE operated(left, remove_previous(matched))
        after(left) ==
            rest(left, advance_if_token_type_matches(left.self, {"Minus", "Plus"}))
    IN  after(factor(self))

\* Parser::term
term(self) ==
    LET RECURSIVE operand(_, _), loop(_, _)
        loop(left, right) ==
            IF right.st # "ok" THEN right
            ELSE LET expr == IF left = <<>> THEN right.v
                             ELSE new_binary(left[1], left[2], right.v)
                     matched == advance_if_token_type_matches(right.self,
                                   {"Minus", "Plus"})
                 IN  IF matched = right.self THEN Parsed(right.self, expr)
                     ELSE operand(<<expr, remove_previous(matched).token>>,
                                  remove_previous(matched).self)
        operand(left, parser_now) == loop(left, factor(parser_now))
    IN  operand(<<>>, self)

\* Parser::comparison
comparison(self) ==
    LET RECURSIVE operand(_, _), loop(_, _)
        loop(left, right) ==
            IF right.st # "ok" THEN right
            ELSE LET expr == IF left = <<>> THEN right.v
                             ELSE new_binary(left[1], left[2], right.v)
                     matched == advance_if_token_type_matches(right.self,
                                   {"Greater", "GreaterEqual", "Less", "LessEqual"})
                 IN  IF matched = right.self THEN Parsed(right.self, expr)
                     ELSE operand(<<expr, remove_previous(matched).token>>,
                                  remove_previous(matched).self)
        operand(left, parser_now) == loop(left, term(parser_now))
    IN  operand(<<>>, self)

\* Parser::equality
equality(self) ==
    LET RECURSIVE operand(_, _), loop(_, _)
        loop(left, right) ==
            IF right.st # "ok" THEN right
            ELSE LET expr == IF left = <<>> THEN right.v
                             ELSE new_binary(left[1], left[2], right.v)
                     matched == advance_if_token_type_matches(right.self,
                                   {"BangEqual", "EqualEqual"})
                 IN  IF matched = right.self THEN Parsed(right.self, expr)
                     ELSE operand(<<expr, remove_previous(matched).token>>,
                                  remove_previous(matched).self)
        operand(left, parser_now) == loop(left, comparison(parser_now))
    IN  operand(<<>>, self)

RECURSIVE assignment(_)

\* assignment, had the error been located at the token the parser has come
\* to and not at the `=`
assignment_error_at_next_token(self) ==
    LET assigned(expr, equals, value) ==
            IF value.st # "ok" THEN value
            ELSE IF expr.v.kind = "Variable"
                 THEN Parsed(value.self, new_assign(expr.v.name, value.v))
                 ELSE ParseErr(value.self,
                               ParserError(peek(value.self),
                                           "Invalid assignment target"))
        rest(expr, matched) ==
            IF expr.st # "ok" \/ matched = expr.self THEN expr
            ELSE assigned(expr, previous(matched), assignment(matched))
        after(expr) ==
            rest(expr, advance_if_token_type_matches(expr.self, {"Equal"}))
    IN  after(equality(self))

\* Parser::assignment
assignment(self) ==
    LET assigned(expr, equals, value) ==
            IF value.st # "ok" THEN value
            ELSE IF expr.v.kind = "Variable"
                 THEN Parsed(value.self, new_assign(expr.v.name, value.v))
                 ELSE ParseErr(value.self,
                               ParserError(equals, "Invalid assignment target"))
        rest(expr, matched) ==
            IF expr.st # "ok" \/ matched = expr.self THEN expr
            ELSE assigned(expr, previous(matched), assignment(matched))
        after(expr) ==
            rest(expr, advance_if_token_type_matches(expr.self, {"Equal"}))
    IN  after(equality(self))

\* Parser::expression
expression(self) == assignment(self)

\* Parser::print_statement and Parser::expression_statement, which differ
\* in the statement built and in the message
ExpressionThenSemicolon(self, print) ==
    LET built(expr, semicolon) ==
            IF expr.st # "ok" THEN expr
            ELSE IF semicolon.st # "ok" THEN semicolon
            ELSE Parsed(semicolon.self,
                        IF print THEN new_print_statement(expr.v)
                        ELSE new_expression_statement(expr.v))
        terminated(expr) ==
            built(expr, consume(expr.self, "Semicolon",
                                IF print THEN "Expect ';' after value."
                                ELSE "Expect ';' after expression."))
    IN  terminated(expression(self))

\* Parser::statement
statement(self) ==
    LET matched == advance_if_token_type_matches(self, {"Print"})
    IN  ExpressionThenSemicolon(matched, matched # self)

\* Parser::var_decl
var_decl(self) ==
    LET built(name, init, semicolon) ==
            IF init.st # "ok" THEN init
            ELSE IF semicolon.st # "ok" THEN semicolon
            ELSE Parsed(semicolon.self, new_var_statement(name.v, init.v))
        terminated(name, init) ==
            built(name, init,
                  consume(init.self, "Semicolon",
                          "Expected ';' after variable delcaration"))
        some(expr) ==
            IF expr.st # "ok" THEN expr ELSE Parsed(expr.self, Some(expr.v))
        initialized(name, matched) ==
            terminated(name, IF matched # name.self THEN some(expression(matched))
                             ELSE Parsed(matched, None))
        named(name) ==
            IF name.st # "ok" THEN name
            ELSE initialized(name,
                             advance_if_token_type_matches(name.self, {"Equal"}))
    IN  named(consume(self, "Identifier", "Expected variable name"))

\* the loop of Parser::synchronize: the parser afterwards, or a panic
RECURSIVE SynchronizeLoop(_)
SynchronizeLoop(self) ==
    IF ~InRange(self) THEN [self |-> self, panic |-> TRUE]
    ELSE IF peek(self).token_type = "Eof" THEN [self |-> self, panic |-> FALSE]
    ELSE IF self.current_index = 0 THEN [self |-> self, panic |-> TRUE]
    ELSE IF previous(self).token_type = "Semicolon"
         THEN [self |-> self, panic |-> FALSE]
    ELSE IF peek(self).token_type \in
               {"Class", "For", "Fun", "If", "Print", "Return", "Var", "While"}
         THEN [self |-> self, panic |-> FALSE]
    ELSE SynchronizeLoop(advance(self).self)

\* synchronize, had it not discarded the token the declaration failed at
synchronize_keeping_failed_token(self) == SynchronizeLoop(self)

\* Parser::synchronize
synchronize(self) ==
    LET first == advance(self)
    IN  IF first.panic THEN first ELSE SynchronizeLoop(first.self)

\* Parser::declaration
declaration(self) ==
    LET matched == advance_if_token_type_matches(self, {"Var"})
        map_err(parsed, synchronized) ==
            IF parsed.st # "err" THEN parsed
            ELSE IF synchronized.panic THEN ParsePanic(synchronized.self)
            ELSE ParseErr(synchronized.self, parsed.v)
        synchronized_after(parsed) == map_err(parsed, synchronize(parsed.self))
    IN  synchronized_after(IF matched # self THEN var_decl(matched)
                           ELSE statement(self))

(***************************************************************************)
(* Scanner and Parser state                                                 *)
(***************************************************************************)
\* Scanner::new, with the errors_encountered of scan_tokens
NewScanner(source_buffer) ==
    [source_buffer |-> source_buffer, tokens |-> <<>>, start_index |-> 0,
     current_index |-> 0, line_index |-> 0, errors_encountered |-> <<>>]

\* Parser::new, with the statements and errors_encountered of parse
NewParser(tokens) ==
    [tokens |-> tokens, current_index |-> 0, statements |-> <<>>,
     errors_encountered |-> <<>>]

NoCall == [op |-> "none"]

\* Interpreter::default() of interpreter.rs
DefaultInterpreter == [had_error |-> FALSE]

\* a process that reads nothing, has written nothing and has not exited
NoProcess == [stdin |-> <<>>, stderr |-> <<>>, status |-> None]

(***************************************************************************)
(* SpecInterp: Interpreter::interpret called on statement lists             *)
(***************************************************************************)
Ident(name) == Token("Identifier", name, 0)
X == <<"x">>
Y == <<"y">>

\* var x = 1;  var x;  print x;  x = 2;  print y;  var x = y;
BaseStatements ==
    { new_var_statement(Ident(X), Some(new_number_literal(Int2F(1)))),
      new_var_statement(Ident(X), None),
      new_print_statement(new_variable(Ident(X))),
      new_expression_statement(new_assign(Ident(X), new_number_literal(Int2F(2)))),
      new_print_statement(new_variable(Ident(Y))),
      new_var_statement(Ident(X), Some(new_variable(Ident(Y)))) }

\* inner, wrapped in depth blocks: { first { first inner print x; } print x; }
RECURSIVE Nest(_, _, _)
Nest(depth, first, inner) ==
    IF depth = 0 THEN inner
    ELSE new_block_statement(
            << first, Nest(depth - 1, first, inner),
               new_print_statement(new_variable(Ident(X))) >>)

InitInterp ==
    /\ interpreter = DefaultInterpreter
    /\ process = NoProcess
    /\ pc = "interpret"
    /\ scanner = NewScanner(<<>>)
    /\ parser = NewParser(<<>>)
    /\ environment = DefaultEnvironment
    /\ frames \in
          { << Frame(<< before, Nest(depth, first, inner), after >>) >> :
              before \in BaseStatements, first \in BaseStatements,
              inner \in BaseStatements, after \in BaseStatements,
              depth \in 0..MaxDepth }
    /\ output = <<>>
    /\ result = None
    /\ call = NoCall

NextInterp ==
    \/ ExecuteStatement
    \/ VisitBlockEnter
    \/ VisitBlockExit
    \/ InterpretReturn

SpecInterp == InitInterp /\ [][NextInterp]_vars

(***************************************************************************)
(* SpecEnv: the Environment API called directly on a scope chain            *)
(* call records the last call: the method, its arguments, the environment   *)
(* before it and what it returned.                                          *)
(***************************************************************************)
EnvNames == {X, Y}
EnvValues == {Nil, Number(Int2F(1))}

Called(op, name, value, res) ==
    [op |-> op, name |-> name, value |-> value, before |-> environment, res |-> res]

CallDefine(name, value) ==
    /\ pc = "api"
    /\ environment' = define(environment, name, value)
    /\ call' = Called("define", name, value, Ok(Nil))
    /\ UNCHANGED <<pc, scanner, parser, frames, output, result,
                 interpreter, process>>

CallGet(name) ==
    /\ pc = "api"
    /\ call' = Called("get", name, Nil, get(environment, Ident(name)))
    /\ UNCHANGED <<pc, scanner, parser, environment, frames, output, result,
                 interpreter, process>>

CallAssign(name, value) ==
    /\ pc = "api"
    /\ LET a == assign(environment, Ident(name), value)
       IN  /\ environment' = a.self
           /\ call' = Called("assign", name, value, a.res)
    /\ UNCHANGED <<pc, scanner, parser, frames, output, result,
                 interpreter, process>>

\* a new scope is opened: Environment::default().set_enclosing(current)
CallSetEnclosing ==
    /\ pc = "api"
    /\ Len(environment) < MaxDepth
    /\ LET fresh == set_enclosing(DefaultEnvironment, environment)
       IN  /\ ~fresh.panic
           /\ environment' = fresh.self
    /\ call' = Called("set_enclosing", <<>>, Nil, Ok(Nil))
    /\ UNCHANGED <<pc, scanner, parser, frames, output, result,
                 interpreter, process>>

\* the current scope is closed: current.take_enclosing()
CallTakeEnclosing ==
    /\ pc = "api"
    /\ LET taken == take_enclosing(environment)
       IN  /\ ~taken.panic
           /\ environment' = taken.ret
    /\ call' = Called("take_enclosing", <<>>, Nil, Ok(Nil))
    /\ UNCHANGED <<pc, scanner, parser, frames, output, result,
                 interpreter, process>>

InitEnv ==
    /\ interpreter = DefaultInterpreter
    /\ process = NoProcess
    /\ pc = "api"
    /\ scanner = NewScanner(<<>>)
    /\ parser = NewParser(<<>>)
    /\ environment = DefaultEnvironment
    /\ frames = <<>>
    /\ output = <<>>
    /\ result = None
    /\ call = NoCall

NextEnv ==
    \/ \E name \in EnvNames, value \in EnvValues : CallDefine(name, value)
    \/ \E name \in EnvNames : CallGet(name)
    \/ \E name \in EnvNames, value \in EnvValues : CallAssign(name, value)
    \/ CallSetEnclosing
    \/ CallTakeEnclosing

SpecEnv == InitEnv /\ [][NextEnv]_vars

(***************************************************************************)
(* Spec: the stages composed.  A source is scanned, the tokens scan_tokens  *)
(* returns are parsed, the statements parse returns are interpreted; or     *)
(* Parser::new(tokens).parse() is called on tokens given directly, which    *)
(* call then records.  A panic ends the run at pc = "panic".                *)
(***************************************************************************)
\* the loop of scan_tokens, had it tested is_at_end after its body
ScanTokenBeforeTestingEnd ==
    /\ pc = "scan"
    /\ scanner.current_index <= ByteLen(scanner.source_buffer)
    /\ LET matched(r) ==
               /\ scanner' =
                     CASE r.st = "token" -> [r.self EXCEPT !.tokens = Append(@, r.v)]
                       [] r.st = "err" ->
                             [r.self EXCEPT !.errors_encountered = Append(@, r.v)]
                       [] OTHER -> r.self
               /\ pc' = IF r.st = "panic" THEN "panic" ELSE pc
       IN  matched(scan_token([scanner EXCEPT
                                  !.start_index = scanner.current_index]))
    /\ UNCHANGED <<parser, environment, frames, output, result, call,
                 interpreter, process>>

\* one iteration of the loop of scan_tokens
ScanToken ==
    /\ pc = "scan"
    /\ scanner.current_index < ByteLen(scanner.source_buffer)
    /\ LET matched(r) ==
               /\ scanner' =
                     CASE r.st = "token" -> [r.self EXCEPT !.tokens = Append(@, r.v)]
                       [] r.st = "err" ->
                             [r.self EXCEPT !.errors_encountered = Append(@, r.v)]
                       [] OTHER -> r.self
               /\ pc' = IF r.st = "panic" THEN "panic" ELSE pc
       IN  matched(scan_token([scanner EXCEPT
                                  !.start_index = scanner.current_index]))
    /\ UNCHANGED <<parser, environment, frames, output, result, call,
                 interpreter, process>>

\* scan_tokens returning, had the Eof token been given line 0
ScanReturnEofAtLineZero ==
    /\ pc = "scan"
    /\ scanner.current_index >= ByteLen(scanner.source_buffer)
    /\ IF scanner.errors_encountered = <<>>
       THEN LET eof == Token("Eof", <<>>, 0)
            IN  /\ scanner' = [scanner EXCEPT !.tokens = Append(@, eof)]
                /\ parser' = NewParser(scanner'.tokens)
                /\ pc' = "parse"
                /\ UNCHANGED result
       ELSE /\ result' = Some(Err(scanner.errors_encountered))
            /\ pc' = "done"
            /\ UNCHANGED <<scanner, parser>>
    /\ UNCHANGED <<environment, frames, output, call, interpreter, process>>

\* scan_tokens returns: Ok(tokens), Eof pushed, or Err(errors_encountered)
ScanReturn ==
    /\ pc = "scan"
    /\ scanner.current_index >= ByteLen(scanner.source_buffer)
    /\ IF scanner.errors_encountered = <<>>
       THEN LET eof == Token("Eof", <<>>, scanner.line_index)
            IN  /\ scanner' = [scanner EXCEPT !.tokens = Append(@, eof)]
                /\ parser' = NewParser(scanner'.tokens)
                /\ pc' = "parse"
                /\ UNCHANGED result
       ELSE /\ result' = Some(Err(scanner.errors_encountered))
            /\ pc' = "done"
            /\ UNCHANGED <<scanner, parser>>
    /\ UNCHANGED <<environment, frames, output, call, interpreter, process>>

\* one iteration of the loop of parse
Declaration ==
    /\ pc = "parse"
    /\ InRange(parser) => peek(parser).token_type # "Eof"
    /\ LET matched(r) ==
               /\ parser' =
                     CASE r.st = "ok" -> [r.self EXCEPT !.statements = Append(@, r.v)]
                       [] r.st = "err" ->
                             [r.self EXCEPT !.errors_encountered = Append(@, r.v)]
                       [] OTHER -> r.self
               /\ pc' = IF r.st = "panic" THEN "panic" ELSE pc
       IN  matched(IF InRange(parser) THEN declaration(parser)
                   ELSE ParsePanic(parser))
    /\ UNCHANGED <<scanner, environment, frames, output, result, call,
                 interpreter, process>>

\* parse returns: Err(errors_encountered), or Ok(statements), which
\* interpret is then called on
ParseReturn ==
    /\ pc = "parse"
    /\ InRange(parser)
    /\ peek(parser).token_type = "Eof"
    /\ IF parser.errors_encountered # <<>>
       THEN /\ result' = Some(Err(parser.errors_encountered))
            /\ pc' = "done"
            /\ UNCHANGED frames
       ELSE /\ frames' = <<Frame(parser.statements)>>
            /\ pc' = "interpret"
            /\ UNCHANGED result
    /\ UNCHANGED <<scanner, parser, environment, output, call,
                 interpreter, process>>

\* the binary operators: the TokenType the parser matches and the spelling
BinaryOperators ==
    [ Slash |-> <<"/">>, Star |-> <<"*">>, Minus |-> <<"-">>, Plus |-> <<"+">>,
      Greater |-> <<">">>, GreaterEqual |-> <<">", "=">>, Less |-> <<"<">>,
      LessEqual |-> <<"<", "=">>, BangEqual |-> <<"!", "=">>,
      EqualEqual |-> <<"=", "=">> ]

\* the number lexemes of a chain of three operands
Operands == { << <<"1">>, <<"2">>, <<"3">> >>, << <<"8">>, <<"4">>, <<"2">> >> }

\* the source `print a op1 b op2 c;`
PrintChainSource(o, op1, op2) ==
    <<"p", "r", "i", "n", "t", " ">> \o o[1] \o <<" ">> \o BinaryOperators[op1]
        \o <<" ">> \o o[2] \o <<" ">> \o BinaryOperators[op2] \o <<" ">> \o o[3]
        \o <<";">>

\* the tokens of `print a op1 b op2 c;`, the operators with the TokenType
\* the parser matches
PrintChainTokens(o, op1, op2) ==
    << Token("Print", <<"p", "r", "i", "n", "t">>, 0),
       Token("Number", o[1], 0), Token(op1, BinaryOperators[op1], 0),
       Token("Number", o[2], 0), Token(op2, BinaryOperators[op2], 0),
       Token("Number", o[3], 0), Token("Semicolon", <<";">>, 0),
       Token("Eof", <<>>, 0) >>

\* var x = 1; { var x = 2; print x; } print x;
ScopingProgram ==
    <<"v", "a", "r", " ", "x", " ", "=", " ", "1", ";", " ", "{", " ",
      "v", "a", "r", " ", "x", " ", "=", " ", "2", ";", " ",
      "p", "r", "i", "n", "t", " ", "x", ";", " ", "}", " ",
      "p", "r", "i", "n", "t", " ", "x", ";">>

Sources ==
    { PrintChainSource(o, op1, op2) :
        o \in Operands, op1 \in DOMAIN BinaryOperators,
        op2 \in DOMAIN BinaryOperators }
    \cup { ScopingProgram,
           <<"v", "a", "r", " ", "x", " ", "=", " ", "1", ";", " ",
             "x", " ", "=", " ", "2", ";", " ", "p", "r", "i", "n", "t", " ",
             "x", ";">>,
           <<"p", "r", "i", "n", "t", " ", "y", ";">>,
           <<"x", " ", "=", " ", "1", ";">>,
           <<"@", "1">>, <<"1">>, <<>>,
           \* a = b = c;  1 = 2;  (a) = 2;  a + b = 2;  1 = ;
           <<"a", " ", "=", " ", "b", " ", "=", " ", "c", ";">>,
           <<"1", " ", "=", " ", "2", ";">>, <<"(", "a", ")", " ", "=", " ", "2", ";">>,
           <<"a", " ", "+", " ", "b", " ", "=", " ", "2", ";">>,
           <<"1", " ", "=", " ", ";">>,
           \* characters that no lexical rule matches, one of them not ASCII
           <<"@", "#", "(">>, <<"@", "\n", "#", " ", "1">>, <<"U+00E9">>,
           <<"1", " ", "U+00E9", " ", "@">>,
           \* sources of three lines, with a newline in a string
           <<"p", "r", "i", "n", "t", " ", "1", ";", "\n", "\n", "p", "r", "i", "n", "t", " ", "2", ";">>,
           <<"p", "r", "i", "n", "t", " ", "\"", "a", "\n", "b", "\"", ";", "\n", "p", "r", "i", "n", "t", " ", "1", ";">>,
           \* 1.  1.2.3  1..2  print 12.50;
           <<"1", ".">>, <<"1", ".", "2", ".", "3">>, <<"1", ".", ".", "2">>,
           <<"p", "r", "i", "n", "t", " ", "1", "2", ".", "5", "0", ";">>,
           \* strings: unterminated over two lines, empty, not ASCII
           <<"1", " ", "\"", "a", "\n", "b">>, <<"\"", "\"", ";">>,
           <<"\"", "U+00E9", "\"", ";">>,
           \* orchid _or or x1;
           <<"o", "r", "c", "h", "i", "d", " ", "_", "o", "r", " ", "o", "r",
             " ", "x", "1", ";">>,
           \* 1 2 3 var x;
           <<"1", " ", "2", " ", "3", " ", "v", "a", "r", " ", "x", ";">>,
           \* without `;`: - and print 1; 2
           <<"-">>, <<"p", "r", "i", "n", "t", " ", "1", ";", " ", "2">>,
           \* print 1 print 2;
           <<"p", "r", "i", "n", "t", " ", "1", " ",
             "p", "r", "i", "n", "t", " ", "2", ";">>,
           \* print ; print 1; print ;
           <<"p", "r", "i", "n", "t", " ", ";", " ",
             "p", "r", "i", "n", "t", " ", "1", ";", " ",
             "p", "r", "i", "n", "t", " ", ";">> }

Init ==
    /\ interpreter = DefaultInterpreter
    /\ process = NoProcess
    /\ \/ /\ pc = "scan"
          /\ scanner \in { NewScanner(source) : source \in Sources }
          /\ parser = NewParser(<<>>)
          /\ call = NoCall
       \/ /\ pc = "parse"
          /\ scanner = NewScanner(<<>>)
          /\ \E o \in Operands, op1 \in DOMAIN BinaryOperators,
                op2 \in DOMAIN BinaryOperators :
                /\ parser = NewParser(PrintChainTokens(o, op1, op2))
                /\ call = [op |-> "parse", tokens |-> parser.tokens]
    /\ environment = DefaultEnvironment
    /\ frames = <<>>
    /\ output = <<>>
    /\ result = None

Next ==
    \/ ScanToken
    \/ ScanReturn
    \/ Declaration
    \/ ParseReturn
    \/ ExecuteStatement
    \/ InterpretReturn

Spec == Init /\ [][Next]_vars

(***************************************************************************)
(* SpecEval: Interpreter::evaluate called on one expression, a unary or a   *)
(* binary operator over operands that each evaluate to a value.  call       *)
(* holds the expression and, once evaluated, what evaluate returned.        *)
(***************************************************************************)
\* operand expressions of every tag; the Numbers include both zeros, the infinities
\* and NaN, which no literal denotes and a division or a negation yields
OperandExprs ==
    LET lit(i) == new_number_literal(Int2F(i))
        div(i, j) == new_binary(lit(i), Token("Slash", <<"/">>, 0), lit(j))
        neg(expr) == new_unary(Token("Minus", <<"-">>, 0), expr)
    IN  << new_nil_literal, new_boolean_literal(TRUE), new_boolean_literal(FALSE),
           new_string_literal(<<>>), new_string_literal(<<"a">>),
           new_string_literal(<<"a", "b">>),
           lit(0), lit(1), lit(2), neg(lit(0)), neg(lit(2)),
           div(1, 2), div(1, 0), neg(div(1, 0)), div(0, 0) >>

Evaluate ==
    /\ pc = "evaluate"
    /\ pc' = "evaluated"
    /\ call' = [op |-> "evaluate", expr |-> call.expr,
                res |-> evaluate(environment, call.expr).res]
    /\ UNCHANGED <<scanner, parser, environment, frames, output, result,
                 interpreter, process>>

InitEval ==
    /\ interpreter = DefaultInterpreter
    /\ process = NoProcess
    /\ pc = "evaluate"
    /\ scanner = NewScanner(<<>>)
    /\ parser = NewParser(<<>>)
    /\ environment = DefaultEnvironment
    /\ frames = <<>>
    /\ output = <<>>
    /\ result = None
    /\ \/ \E l \in DOMAIN OperandExprs, r \in DOMAIN OperandExprs,
              t \in DOMAIN BinaryOperators :
              call = [op |-> "evaluate",
                      expr |-> new_binary(OperandExprs[l],
                                          Token(t, BinaryOperators[t], 0),
                                          OperandExprs[r])]
       \/ \E e \in DOMAIN OperandExprs,
              t \in {<<"Bang", "!">>, <<"Minus", "-">>} :
              call = [op |-> "evaluate",
                      expr |-> new_unary(Token(t[1], <<t[2]>>, 0), OperandExprs[e])]

SpecEval == InitEval /\ [][Evaluate]_vars

(***************************************************************************)
(* SpecRun: the binary.  main runs a file, or prompts for lines on stdin    *)
(* and runs each; Interpreter::run scans its buffer, parses the tokens and  *)
(* prints what parse returned.  stderr holds the errors written, not their  *)
(* formatted text.                                                          *)
(***************************************************************************)
MaxLines == 2

\* the characters str::trim_end removes
Whitespace == {" ", "\t", "\n", "\r"}

RECURSIVE trim_end(_)
trim_end(buffer) ==
    IF buffer # <<>> /\ buffer[Len(buffer)] \in Whitespace
    THEN trim_end(SubSeq(buffer, 1, Len(buffer) - 1))
    ELSE buffer

\* the words that end Interpreter::run_prompt
ExitWords ==
    { <<"e", "x", "i", "t">>, <<"e", "x", "i", "t", "(", ")">>,
      <<"q", "u", "i", "t">>, <<"q", "u", "i", "t", "(", ")">> }

\* the FacingRoxError of process_result_vec
FacingSyntaxError == [kind |-> "FacingRoxError::SyntaxError"]

\* lines typed at the prompt, without their line end
Lines ==
    ExitWords \cup
    { <<>>, <<" ">>, <<"q", "u", "i", "t", " ", "\t">>,
      <<" ", "e", "x", "i", "t">>, <<"e", "x", "i", "t", ";">>,
      <<"p", "r", "i", "n", "t", " ", "1", ";">>,
      <<"p", "r", "i", "n", "t", " ", ";">>, <<"@">>, <<"1">>, <<"-">>,
      <<"U+00E9">> }

\* what stdin can hold: lines ending in a newline, the last one maybe not
Stdins ==
    UNION { { lines \in [1..n -> { l \o <<"\n">> : l \in Lines }
                                  \cup (Lines \ {<<>>})] :
                \A k \in 1..(n - 1) : lines[k][Len(lines[k])] = "\n" }
            : n \in 0..MaxLines }

\* Interpreter::run entered: Scanner::new(buffer)
RunStarted(buffer) ==
    /\ scanner' = NewScanner(buffer)
    /\ parser' = NewParser(<<>>)
    /\ result' = None
    /\ pc' = "scan"

\* main: the Interpreter built, run_file or run_prompt entered
Main ==
    /\ pc = "main"
    /\ IF call.op = "run_file"
       THEN RunStarted(call.buffer)
       ELSE pc' = "prompt" /\ UNCHANGED <<scanner, parser, result>>
    /\ UNCHANGED <<environment, frames, output, call, interpreter, process>>

\* Interpreter::run_prompt, one iteration of the loop up to the call of run
Prompt ==
    /\ pc = "prompt"
    /\ output' = Append(output, "> ")
    /\ IF process.stdin = <<>>
       THEN /\ result' = Some(Ok(Nil))
            /\ pc' = "returned"
            /\ UNCHANGED <<scanner, parser, process>>
       ELSE /\ process' = [process EXCEPT !.stdin = Tail(@)]
            /\ IF trim_end(Head(process.stdin)) \in ExitWords
               THEN /\ result' = Some(Ok(Nil))
                    /\ pc' = "returned"
                    /\ UNCHANGED <<scanner, parser>>
               ELSE RunStarted(trim_end(Head(process.stdin)))
    /\ UNCHANGED <<environment, frames, call, interpreter>>

\* Interpreter::run, scan_tokens having returned Err: process_result_vec
ProcessResultVec ==
    /\ pc = "done"
    /\ result # None /\ ~result[1].ok
    /\ interpreter' = [interpreter EXCEPT !.had_error = TRUE]
    /\ process' = [process EXCEPT !.stderr = @ \o result[1].e]
    /\ result' = Some(Err(FacingSyntaxError))
    /\ pc' = "ran"
    /\ UNCHANGED <<scanner, parser, environment, frames, output, call>>

\* Interpreter::run, parse having returned: its result printed, Ok(())
RunReturn ==
    /\ pc = "parse"
    /\ InRange(parser)
    /\ peek(parser).token_type = "Eof"
    /\ output' = Append(output,
                        IF parser.errors_encountered # <<>>
                        THEN Err(parser.errors_encountered)
                        ELSE Ok(parser.statements))
    /\ result' = Some(Ok(Nil))
    /\ pc' = "ran"
    /\ UNCHANGED <<scanner, parser, environment, frames, call, interpreter,
                   process>>

\* Interpreter::run_prompt, run having returned: an Err written, the flag
\* reset, the loop goes on
PromptRan ==
    /\ pc = "ran"
    /\ call.op = "run_prompt"
    /\ IF result[1].ok
       THEN UNCHANGED <<interpreter, process>>
       ELSE /\ process' = [process EXCEPT !.stderr = Append(@, result[1].e)]
            /\ interpreter' = [interpreter EXCEPT !.had_error = FALSE]
    /\ result' = None
    /\ pc' = "prompt"
    /\ UNCHANGED <<scanner, parser, environment, frames, output, call>>

\* main: run_file or run_prompt has returned; an Err written, exit 65 or 0
Exit ==
    /\ \/ pc = "ran" /\ call.op = "run_file"
       \/ pc = "returned"
    /\ process' = IF result[1].ok
                  THEN [process EXCEPT !.status = Some(0)]
                  ELSE [process EXCEPT !.stderr = Append(@, result[1].e),
                                       !.status = Some(65)]
    /\ pc' = "exit"
    /\ UNCHANGED <<scanner, parser, environment, frames, output, result,
                   call, interpreter>>

InitRun ==
    /\ pc = "main"
    /\ \/ /\ call \in { [op |-> "run_file", buffer |-> source] :
                          source \in Sources }
          /\ process = NoProcess
       \/ /\ call = [op |-> "run_prompt"]
          /\ process \in { [NoProcess EXCEPT !.stdin = lines] : lines \in Stdins }
    /\ interpreter = DefaultInterpreter
    /\ scanner = NewScanner(<<>>)
    /\ parser = NewParser(<<>>)
    /\ environment = DefaultEnvironment
    /\ frames = <<>>
    /\ output = <<>>
    /\ result = None

NextRun ==
    \/ Main
    \/ Prompt
    \/ ScanToken
    \/ ScanReturn
    \/ ProcessResultVec
    \/ Declaration
    \/ RunReturn
    \/ PromptRan
    \/ Exit

SpecRun == InitRun /\ [][NextRun]_vars

(***************************************************************************)
(* Claims about the Environment API (SpecEnv)                               *)
(***************************************************************************)
\* the scopes of chain that bind name, and the nearest of them
Binding(chain, name) == { i \in 1..Len(chain) : name \in DOMAIN chain[i] }
Nearest(chain, name) ==
    CHOOSE i \in Binding(chain, name) : \A j \in Binding(chain, name) : i <= j

\* C6: when the nearest scope that binds the name is an enclosing scope,
\* assign succeeds, sets that scope's binding to the value and changes no
\* other scope.
C6_AssignReachesEnclosingScope ==
    ( /\ call.op = "assign"
      /\ Binding(call.before, call.name) # {}
      /\ Nearest(call.before, call.name) > 1 )
    => /\ call.res.ok
       /\ environment =
            [call.before EXCEPT ![Nearest(call.before, call.name)] =
                Insert(@, call.name, call.value)]

\* C7: assign of a name that no scope binds fails with the error
\* "Undefined variable '<name>'" and leaves every scope as it was.
C7_AssignNeverDeclares ==
    (call.op = "assign" /\ Binding(call.before, call.name) = {})
    => /\ call.res =
            Err(RuntimeError("Undefined variable '" \o Str(call.name) \o "'"))
       /\ environment = call.before

\* an assign of a name bound nowhere, on a chain of several scopes
C7_Witness ==
    /\ call.op = "assign"
    /\ Binding(call.before, call.name) = {}
    /\ Len(call.before) > 1
    /\ \E i \in 1..Len(call.before) : call.before[i] # EmptyMap
    /\ ~call.res.ok

\* C8: get returns the value the nearest scope that binds the name gives
\* it, whatever the scopes further out bind it to, and changes no scope.
C8_GetReturnsNearestBinding ==
    call.op = "get"
    => /\ environment = call.before
       /\ Binding(call.before, call.name) # {}
          => call.res =
                Ok(call.before[Nearest(call.before, call.name)][call.name])

\* a get answered by an enclosing scope that shadows a different binding
\* further out
C8_Witness ==
    /\ call.op = "get"
    /\ Binding(call.before, call.name) # {}
    /\ Nearest(call.before, call.name) > 1
    /\ \E j \in Binding(call.before, call.name) :
          call.before[j][call.name] #
             call.before[Nearest(call.before, call.name)][call.name]
    /\ call.res.ok

\* C10: define succeeds; afterwards the current scope binds the name to the
\* value, binds every other name as before, and the enclosing scopes are
\* unchanged.
C10_DefineBindsCurrentScopeOnly ==
    call.op = "define"
    => /\ call.res.ok
       /\ Len(environment) = Len(call.before)
       /\ DOMAIN environment[1] = DOMAIN call.before[1] \cup {call.name}
       /\ environment[1][call.name] = call.value
       /\ \A k \in DOMAIN call.before[1] \ {call.name} :
             environment[1][k] = call.before[1][k]
       /\ \A i \in 2..Len(call.before) : environment[i] = call.before[i]

\* a define that replaces a binding of the current scope while an enclosing
\* scope binds the same name to something else
C10_Witness ==
    /\ call.op = "define"
    /\ call.name \in DOMAIN call.before[1]
    /\ call.before[1][call.name] # call.value
    /\ \E i \in 2..Len(call.before) :
          /\ call.name \in DOMAIN call.before[i]
          /\ call.before[i][call.name] # call.value
    /\ \E k \in DOMAIN call.before[1] : k # call.name

(***************************************************************************)
(* Claims about interpret (SpecInterp)                                      *)
(***************************************************************************)
\* the outermost scope
Global(chain) == chain[Len(chain)]

\* C1: interpret takes the top-level statements one at a time in source
\* order; an Err raised by a statement becomes the Err being returned; from
\* then on nothing is printed, no further top-level statement is taken, the
\* Err stays the same and the outermost scope keeps the definitions made
\* before; and Ok is returned only after the last statement.
C1_InterpretStopsAtFirstError ==
    /\ [][ /\ frames'[1].statements = frames[1].statements
           /\ frames'[1].index \in {frames[1].index, frames[1].index + 1} ]_vars
    /\ [][ ( /\ Running
             /\ ~AtEnd
             /\ CurrentStatement.kind # "Block"
             /\ ~execute(environment, CurrentStatement).res.ok )
           => result' = Some(execute(environment, CurrentStatement).res) ]_vars
    /\ [][ result # None
           => /\ result' = result
              /\ output' = output
              /\ frames'[1].index = frames[1].index
              /\ Global(environment') = Global(environment) ]_vars
    /\ [](pc = "done" /\ result = Some(Ok(Nil))
            => frames[1].index = Len(frames[1].statements))

\* interpret has returned the Err of the second statement: the first
\* statement's definition is in the environment, the third never ran
C1_Witness ==
    /\ pc = "done"
    /\ result # None
    /\ ~result[1].ok
    /\ frames[1].index = 1
    /\ Len(frames[1].statements) = 3
    /\ frames[1].statements[2].kind # "Block"
    /\ X \in DOMAIN environment[1]

\* C5: while interpret runs there is one scope per open block above the
\* global one; entering a block puts one empty scope in front of the chain
\* that was current; leaving it, after its last statement or with an Err,
\* removes exactly that scope; and no step inside a block changes the
\* scopes enclosing it, so the chain is then what it was on entry.
C5_BlockScopeIsPushedAndRestored ==
    /\ [](Len(environment) = Len(frames))
    /\ [][ Len(frames') = Len(frames) + 1
           => environment' = <<EmptyMap>> \o environment ]_vars
    /\ [][ Len(frames') = Len(frames) - 1
           => environment' = Tail(environment) ]_vars
    /\ [][ Len(frames') = Len(frames)
           => Tail(environment') = Tail(environment) ]_vars

\* an Err raised in the innermost of several nested blocks, each of which
\* declared its own x, has reached the top level: the global scope is the
\* current scope again and binds x as before the blocks
C5_Witness ==
    /\ pc = "interpret"
    /\ result # None
    /\ Len(frames) = 1
    /\ \E depth \in 2..MaxDepth :
          CurrentStatement =
             Nest(depth, new_var_statement(Ident(X), None),
                  new_print_statement(new_variable(Ident(Y))))
    /\ environment = <<Insert(EmptyMap, X, Number(Int2F(1)))>>

\* the expression a Print or Variable statement evaluates
Evaluated(s) ==
    IF s.kind = "Variable" THEN s.initializer[1]
    ELSE s.expr

\* the statement about to run reads a variable that no scope binds
ReadsUndefined ==
    /\ Running
    /\ ~AtEnd
    /\ CurrentStatement.kind \in {"Print", "Variable"}
    /\ CurrentStatement.kind = "Variable" => CurrentStatement.initializer # None
    /\ Evaluated(CurrentStatement).kind = "Variable"
    /\ Binding(environment, Evaluated(CurrentStatement).name.lexeme) = {}

\* C9: a statement that reads a variable bound in no scope raises the error
\* "Undefined variable <name>", and that error is the one interpret returns.
C9_UndefinedReadFails ==
    /\ [][ ReadsUndefined
           => result' =
                Some(Err(RuntimeError(
                    "Undefined variable "
                        \o Str(Evaluated(CurrentStatement).name.lexeme)))) ]_vars
    /\ [][ result # None => result' = result ]_vars

\* interpret has returned the error of a read of y inside a block
C9_Witness ==
    /\ pc = "done"
    /\ result = Some(Err(RuntimeError("Undefined variable y")))
    /\ frames[1].statements[frames[1].index + 1].kind = "Block"
    /\ environment # DefaultEnvironment

\* C15: the step that executes a VarDeclaration binds the name in the
\* current scope, to nil without an initializer and to the initializer's
\* value with one, and changes no other binding; when the initializer
\* fails, the step returns its error and the environment is as it was.
C15_VarDeclarationDefinesInCurrentScope ==
    [][ (Running /\ ~AtEnd /\ CurrentStatement.kind = "Variable") =>
            LET name == CurrentStatement.name.lexeme
                bound(value) ==
                    /\ result' = None
                    /\ DOMAIN environment'[1] = DOMAIN environment[1] \cup {name}
                    /\ environment'[1][name] = value
                    /\ \A k \in DOMAIN environment[1] \ {name} :
                            environment'[1][k] = environment[1][k]
                    /\ Tail(environment') = Tail(environment)
                initialized(value) ==
                    IF value.res.ok THEN bound(value.res.v)
                    ELSE result' = Some(value.res) /\ environment' = environment
            IN  IF CurrentStatement.initializer = None THEN bound(Nil)
                ELSE initialized(evaluate(environment,
                                          CurrentStatement.initializer[1])) ]_vars

\* `var x = y;` has failed on the undefined y in a block, x being bound in
\* the global scope
C15_Witness ==
    /\ pc = "interpret"
    /\ result # None
    /\ Len(frames) > 1
    /\ ~AtEnd
    /\ CurrentStatement.kind = "Variable"
    /\ CurrentStatement.initializer # None
    /\ X \in DOMAIN environment[Len(environment)]
    /\ X \notin DOMAIN environment[1]

(***************************************************************************)
(* Claims about evaluate (SpecEval)                                         *)
(***************************************************************************)
\* the expression evaluated is a Binary of the operator, or a Unary of it
EvaluatedBinary(token_type) ==
    /\ pc = "evaluated"
    /\ call.expr.kind = "Binary"
    /\ call.expr.op.token_type = token_type
EvaluatedUnary(token_type) ==
    /\ pc = "evaluated"
    /\ call.expr.kind = "Unary"
    /\ call.expr.op.token_type = token_type

\* the values the operands of the Binary evaluate to, and the Unary's
Left == evaluate(environment, call.expr.left).res.v
Right == evaluate(environment, call.expr.right).res.v
Operand == evaluate(environment, call.expr.expr).res.v

\* C11: + does not coerce: two Numbers give the Number that is their sum,
\* two Strings the String of the left followed by the right, and every
\* other pair of operands a TypeError.
C11_PlusNeverCoerces ==
    EvaluatedBinary("Plus") =>
        CASE Left.tag = "Number" /\ Right.tag = "Number" ->
                call.res = Ok(Number(FAdd(Left.v, Right.v)))
          [] Left.tag = "String" /\ Right.tag = "String" ->
                call.res = Ok(String(Left.v \o Right.v))
          [] OTHER ->
                ~call.res.ok /\ call.res.e.variant = "TypeError"

\* a Number plus a String has been evaluated
C11_Witness ==
    /\ EvaluatedBinary("Plus")
    /\ Left.tag = "Number"
    /\ Right.tag = "String"
    /\ ~call.res.ok

\* C12: - / * > >= < <= yield a value exactly when both operands are
\* Numbers, a Number for - / * and a Boolean for the comparisons; otherwise
\* they fail with a TypeError, which for - / * names the left operand or the
\* right one, and the one it names is not a Number.
C12_NumberOperatorsNeedTwoNumbers ==
    \A t \in {"Minus", "Slash", "Star", "Greater", "GreaterEqual", "Less",
              "LessEqual"} :
        EvaluatedBinary(t) =>
            LET arithmetic == t \in {"Minus", "Slash", "Star"}
                named(side) == side \o " of " \o Str(call.expr.op.lexeme)
                                   \o " binary should be a valid number"
            IN  IF Left.tag = "Number" /\ Right.tag = "Number"
                THEN /\ call.res.ok
                     /\ call.res.v.tag = IF arithmetic THEN "Number" ELSE "Boolean"
                ELSE /\ ~call.res.ok
                     /\ call.res.e.variant = "TypeError"
                     /\ arithmetic =>
                            \/ call.res.e.msg = named("Left") /\ Left.tag # "Number"
                            \/ call.res.e.msg = named("Right") /\ Right.tag # "Number"

\* a Boolean divided by a Number has been evaluated
C12_Witness ==
    /\ EvaluatedBinary("Slash")
    /\ Left.tag = "Boolean"
    /\ Right.tag = "Number"
    /\ ~call.res.ok

\* C13: == and != never fail; == is true exactly when the two operands
\* have the same tag and the same payload (two Nil, the same string, the
\* same boolean, the same number, a zero of either sign being the number
\* zero), and != is its negation.
C13_EqualityComparesTagAndPayload ==
    \A t \in {"EqualEqual", "BangEqual"} :
        EvaluatedBinary(t) =>
            LET payload == CASE Left.tag = "Nil" -> TRUE
                             [] Left.tag = "Number" ->
                                    \/ IsZero(Left.v) /\ IsZero(Right.v)
                                    \/ Left.v = Right.v
                             [] OTHER -> Left.v = Right.v
                equal == Left.tag = Right.tag /\ payload
            IN  call.res = Ok(Boolean(IF t = "EqualEqual" THEN equal ELSE ~equal))

\* C14: unary ! never fails; it gives true when the operand is nil or
\* false, and false for every Number, every String and true.
C14_BangNegatesTruthiness ==
    EvaluatedUnary("Bang") =>
        call.res = Ok(Boolean(Operand = Nil \/ Operand = Boolean(FALSE)))

\* ! of the Number zero has been evaluated
C14_Witness ==
    /\ EvaluatedUnary("Bang")
    /\ Operand = Number(Zero(FALSE))
    /\ call.res = Ok(Boolean(FALSE))

(***************************************************************************)
(* Claims about the stages composed (Spec)                                  *)
(***************************************************************************)
\* the precedence tier of a binary operator, the higher binding tighter
Tier(op) ==
    CASE op \in {"Slash", "Star"} -> 4
      [] op \in {"Minus", "Plus"} -> 3
      [] op \in {"Greater", "GreaterEqual", "Less", "LessEqual"} -> 2
      [] op \in {"BangEqual", "EqualEqual"} -> 1

\* the operand and operator nodes of `a op1 b op2 c`
Leaf(lexeme) == new_number_literal(ParseF64(lexeme))
Op(op) == Token(op, BinaryOperators[op], 0)
NestedLeft(o, op1, op2) ==
    new_binary(new_binary(Leaf(o[1]), Op(op1), Leaf(o[2])), Op(op2), Leaf(o[3]))
NestedRight(o, op1, op2) ==
    new_binary(Leaf(o[1]), Op(op1), new_binary(Leaf(o[2]), Op(op2), Leaf(o[3])))

\* parse has returned from the call on the tokens of `print a op1 b op2 c;`
ParsedChain(o, op1, op2) ==
    /\ call = [op |-> "parse", tokens |-> PrintChainTokens(o, op1, op2)]
    /\ pc \in {"interpret", "done", "panic"}

\* the run on a source is over
Ran(source) ==
    /\ scanner.source_buffer = source
    /\ call = NoCall
    /\ pc \in {"done", "panic"}

\* C2: of two binary operators of different tiers in `a op1 b op2 c` the
\* parser makes the higher-tier one the inner Binary node and the other the
\* root, whichever comes first; and scanning, parsing and interpreting
\* `print 1 + 2 * 3;` succeeds and prints 7.
C2_PrecedenceNestsHigherTierDeeper ==
    /\ \A o \in Operands, op1 \in DOMAIN BinaryOperators,
          op2 \in DOMAIN BinaryOperators :
          ParsedChain(o, op1, op2) /\ Tier(op1) # Tier(op2) =>
             /\ pc # "panic"
             /\ parser.errors_encountered = <<>>
             /\ parser.statements =
                   << new_print_statement(
                         IF Tier(op1) > Tier(op2) THEN NestedLeft(o, op1, op2)
                         ELSE NestedRight(o, op1, op2)) >>
    /\ Ran(PrintChainSource(<< <<"1">>, <<"2">>, <<"3">> >>, "Plus", "Star")) =>
          /\ result = Some(Ok(Nil))
          /\ output = <<"7">>

\* `print 1 + 2 * 3;` has run: the root is the +, its right operand the *,
\* and 7 was printed
C2_Witness ==
    /\ Ran(PrintChainSource(<< <<"1">>, <<"2">>, <<"3">> >>, "Plus", "Star"))
    /\ Len(parser.statements) = 1
    /\ parser.statements[1].expr.op.token_type = "Plus"
    /\ parser.statements[1].expr.right.kind = "Binary"
    /\ parser.statements[1].expr.right.op.token_type = "Star"
    /\ output = <<"7">>

\* C3: two binary operators of one tier in `a op1 b op2 c` are parsed as
\* Binary(Binary(a, op1, b), op2, c), each node with its own operator token;
\* and scanning, parsing and interpreting `print 8 - 4 - 2;` succeeds and
\* prints 2.
C3_BinaryTiersAreLeftAssociative ==
    /\ \A o \in Operands, op1 \in DOMAIN BinaryOperators,
          op2 \in DOMAIN BinaryOperators :
          ParsedChain(o, op1, op2) /\ Tier(op1) = Tier(op2) =>
             /\ pc # "panic"
             /\ parser.errors_encountered = <<>>
             /\ parser.statements =
                   << new_print_statement(NestedLeft(o, op1, op2)) >>
    /\ Ran(PrintChainSource(<< <<"8">>, <<"4">>, <<"2">> >>, "Minus", "Minus")) =>
          /\ result = Some(Ok(Nil))
          /\ output = <<"2">>

\* `print 8 - 4 - 2;` has run: the left operand of the root is the Binary
\* of 8 and 4, and 2 was printed
C3_Witness ==
    /\ Ran(PrintChainSource(<< <<"8">>, <<"4">>, <<"2">> >>, "Minus", "Minus"))
    /\ Len(parser.statements) = 1
    /\ parser.statements[1].expr.left =
          new_binary(Leaf(<<"8">>), Op("Minus"), Leaf(<<"4">>))
    /\ parser.statements[1].expr.right = Leaf(<<"2">>)
    /\ output = <<"2">>

\* C4: scanning, parsing and interpreting
\* `var x = 1; { var x = 2; print x; } print x;` succeeds and prints 2,
\* then 1.
C4_BlockShadowsThenOuterBindingIsBack ==
    Ran(ScopingProgram) =>
       /\ pc = "done"
       /\ result = Some(Ok(Nil))
       /\ output = <<"2", "1">>

\* C16: every iteration of the loop of parse whose declaration succeeds
\* appends its statement, and every one whose declaration fails appends its
\* error and the loop goes on; at Eof parse returns the statements when no
\* error was appended, and otherwise the errors, all of them and in order.
C16_ParseReturnsStatementsOrAllErrors ==
    [][ pc = "parse" =>
            LET declared(r) ==
                    /\ pc' = "parse"
                    /\ parser'.statements =
                          IF r.st = "ok" THEN Append(parser.statements, r.v)
                          ELSE parser.statements
                    /\ parser'.errors_encountered =
                          IF r.st = "ok" THEN parser.errors_encountered
                          ELSE Append(parser.errors_encountered, r.v)
            IN  IF InRange(parser) /\ peek(parser).token_type = "Eof"
                THEN IF parser.errors_encountered = <<>>
                     THEN pc' = "interpret" /\ frames' = <<Frame(parser.statements)>>
                     ELSE pc' = "done"
                          /\ result' = Some(Err(parser.errors_encountered))
                ELSE declared(IF InRange(parser) THEN declaration(parser)
                              ELSE ParsePanic(parser)) ]_vars

\* the parser is at an expression statement whose expression starts with
\* left, an expression that does not fail, is not a Variable and is followed
\* by `=`
InvalidTarget(left) ==
    /\ pc = "parse"
    /\ InRange(parser)
    /\ peek(parser).token_type \notin {"Eof", "Var", "Print"}
    /\ left.st = "ok"
    /\ InRange(left.self)
    /\ check(left.self, "Equal")
    /\ left.v.kind # "Variable"

\* parse has made `a = b = c;` the one statement Assign(a, Assign(b, c))
RightAssociative ==
    (scanner.source_buffer = <<"a", " ", "=", " ", "b", " ", "=", " ", "c", ";">> /\ pc = "interpret") =>
        frames[1].statements =
            << new_expression_statement(
                  new_assign(Ident(<<"a">>),
                             new_assign(Ident(<<"b">>),
                                        new_variable(Ident(<<"c">>))))) >>

\* C17 as stated: `a = b = c` is parsed as Assign(a, Assign(b, c)), and
\* whenever the expression to the left of `=` is not a Variable the
\* declaration fails with "Invalid assignment target" at that `=`.
C17_InvalidTargetIsAlwaysReported ==
    [][ /\ RightAssociative'
        /\ LET target(left) ==
                   InvalidTarget(left) =>
                       parser'.errors_encountered =
                           Append(parser.errors_encountered,
                                  ParserError(peek(left.self),
                                              "Invalid assignment target"))
           IN  target(equality(parser)) ]_vars

\* C17, amended: `a = b = c` is parsed as Assign(a, Assign(b, c)), and
\* whenever the expression to the left of `=` is not a Variable and the
\* right side of the `=` parses, the declaration fails with "Invalid
\* assignment target" at that `=`.
C17_InvalidTargetIsReportedAfterRightSide ==
    [][ /\ RightAssociative'
        /\ LET target(left) ==
                   /\ InvalidTarget(left)
                   /\ assignment(advance(left.self).self).st = "ok"
                   => parser'.errors_encountered =
                          Append(parser.errors_encountered,
                                 ParserError(peek(left.self),
                                             "Invalid assignment target"))
           IN  target(equality(parser)) ]_vars

\* `a + b = 2;` has been parsed: the one error is at the `=`
C17_Witness ==
    /\ Ran(<<"a", " ", "+", " ", "b", " ", "=", " ", "2", ";">>)
    /\ result = Some(Err(<< ParserError(Token("Equal", <<"=">>, 0),
                                        "Invalid assignment target") >>))

\* a character no arm of scan_token matches
NoRule(c) ==
    c \notin {"(", ")", "{", "}", ",", ".", "-", "+", ";", "*", "!", "=", "<",
              ">", "/", "\"", " ", "\r", "\t", "\n"} \cup Digit \cup Alpha

\* the errors of a source without strings and comments: one for each
\* character that no rule matches, in order, with the number of newlines
\* before the character as its line
UnexpectedCharacters(source) ==
    LET at == SelectSeq([i \in 1..Len(source) |-> i],
                        LAMBDA i : NoRule(source[i]))
    IN  [k \in 1..Len(at) |->
            SyntaxError(Cardinality({j \in 1..at[k] : source[j] = "\n"}),
                        "Unexpected character")]

\* C18: the scan of a source (here without strings and comments) with
\* characters that no rule matches does not stop or abort at one of them:
\* it collects one SyntaxError("Unexpected character") for each, with its
\* line, and returns them all, in order, and no tokens; `@#(` returns two.
C18_EveryUnexpectedCharacterIsReported ==
    LET source == scanner.source_buffer
        errors == UnexpectedCharacters(source)
    IN  /\ (\A i \in 1..Len(source) : source[i] \notin {"\"", "/"}) /\ errors # <<>>
            => /\ pc \in {"scan", "done"}
               /\ pc = "scan" =>
                     scanner.errors_encountered =
                         SubSeq(errors, 1, Len(scanner.errors_encountered))
               /\ pc = "done" => result = Some(Err(errors))
        /\ Ran(<<"@", "#", "(">>) => pc = "done" /\ Len(result[1].e) = 2

\* C19: no step of a scan aborts, whatever the characters of the source:
\* scan_tokens goes on to the next character or returns.
C19_ScanNeverAborts ==
    [][pc = "scan" => pc' # "panic"]_vars

\* C20: the tokens a scan returns end with the one Eof token, whose lexeme
\* is empty and whose line is the line counter at the end, the number of
\* newlines of the source; no other token is an Eof, and the lines of the
\* tokens never decrease along the sequence.
C20_TokensEndWithOneEofAndLinesNeverDecrease ==
    LET tokens == scanner.tokens
        source == scanner.source_buffer
    IN  (call = NoCall /\ parser.tokens # <<>>) =>
            /\ tokens # <<>>
            /\ tokens[Len(tokens)] =
                  Token("Eof", <<>>,
                        Cardinality({i \in 1..Len(source) : source[i] = "\n"}))
            /\ tokens[Len(tokens)].line = scanner.line_index
            /\ \A i \in 1..(Len(tokens) - 1) : tokens[i].token_type # "Eof"
            /\ \A i \in 1..Len(tokens), j \in 1..Len(tokens) :
                  i < j => tokens[i].line <= tokens[j].line

\* a source of three lines has been scanned: the Eof token has line 2 and
\* the tokens before it lines 0 to 2
C20_Witness ==
    /\ call = NoCall
    /\ parser.tokens # <<>>
    /\ scanner.tokens[Len(scanner.tokens)] = Token("Eof", <<>>, 2)
    /\ scanner.tokens[1].line = 0
    /\ \E i \in 1..Len(scanner.tokens) :
          scanner.tokens[i].token_type # "Eof" /\ scanner.tokens[i].line = 2

\* C21: a step of the scan at `!`, `=`, `<` or `>` appends one token: when
\* the next character is `=`, the two-character token of the kind the
\* parser matches (BangEqual, EqualEqual, LessEqual, GreaterEqual), and
\* otherwise the one-character token (Bang, Equal, Less, Greater); the
\* cursor is then after the token's characters and no further.
C21_MaximalMunchOfOperators ==
    [][ LET source == scanner.source_buffer
            at == scanner.current_index
            kinds == [c \in {"!", "=", "<", ">"} |->
                        CASE c = "!" -> <<"Bang", "BangEqual">>
                          [] c = "=" -> <<"Equal", "EqualEqual">>
                          [] c = "<" -> <<"Less", "LessEqual">>
                          [] c = ">" -> <<"Greater", "GreaterEqual">>]
            emitted(c, two) ==
                /\ pc' = "scan"
                /\ scanner'.tokens =
                      Append(scanner.tokens,
                             Token(kinds[c][IF two THEN 2 ELSE 1],
                                   IF two THEN <<c, "=">> ELSE <<c>>,
                                   scanner.line_index))
                /\ scanner'.current_index = at + (IF two THEN 2 ELSE 1)
        IN  (pc = "scan" /\ at < Len(source) /\ source[at + 1] \in DOMAIN kinds)
                => emitted(source[at + 1],
                           at + 1 < Len(source) /\ source[at + 2] = "=") ]_vars

\* scan_tokens has returned tokens, which parse was called on
Returned == call = NoCall /\ parser.tokens # <<>>

\* digits, or digits, one `.` and digits
NumberLexeme(lexeme) ==
    \E k \in 1..Len(lexeme) :
        /\ \A i \in 1..k : lexeme[i] \in Digit
        /\ \/ k = Len(lexeme)
           \/ /\ k + 2 <= Len(lexeme)
              /\ lexeme[k + 1] = "."
              /\ \A i \in (k + 2)..Len(lexeme) : lexeme[i] \in Digit

\* C22: the lexeme of every Number token of the tokens a scan returns is a
\* run of digits, or a run of digits, one `.` and a run of digits; a `.`
\* with no digit after it is a Dot token of its own: `1.` gives Number 1,
\* Dot; `1.2.3` gives Number 1.2, Dot, Number 3; `1..2` gives Number 1,
\* Dot, Dot, Number 2.
C22_NumberLexemeIsDigitsDotDigits ==
    LET scanned(source) ==
            IF Returned /\ scanner.source_buffer = source
            THEN [i \in 1..Len(scanner.tokens) |->
                    <<scanner.tokens[i].token_type, scanner.tokens[i].lexeme>>]
            ELSE <<>>
    IN  /\ Returned =>
              \A i \in 1..Len(scanner.tokens) :
                  scanner.tokens[i].token_type = "Number"
                      => NumberLexeme(scanner.tokens[i].lexeme)
        /\ scanned(<<"1", ".">>) \in
              {<<>>, << <<"Number", <<"1">> >>, <<"Dot", <<".">> >>,
                        <<"Eof", <<>> >> >>}
        /\ scanned(<<"1", ".", "2", ".", "3">>) \in
              {<<>>, << <<"Number", <<"1", ".", "2">> >>, <<"Dot", <<".">> >>,
                        <<"Number", <<"3">> >>, <<"Eof", <<>> >> >>}
        /\ scanned(<<"1", ".", ".", "2">>) \in
              {<<>>, << <<"Number", <<"1">> >>, <<"Dot", <<".">> >>,
                        <<"Dot", <<".">> >>, <<"Number", <<"2">> >>,
                        <<"Eof", <<>> >> >>}

\* `1.2.3` has been scanned: the first token is the Number 1.2
C22_Witness ==
    /\ Returned
    /\ scanner.source_buffer = <<"1", ".", "2", ".", "3">>
    /\ scanner.tokens[1] = Token("Number", <<"1", ".", "2">>, 0)
    /\ scanner.tokens[2].token_type = "Dot"

\* C23: a step of the scan at a `"` whose closing `"` exists appends one
\* String token, its lexeme the characters between the two quotes, and
\* leaves the cursor after the closing quote; without a closing quote it
\* appends no token and reports the error "Unterminated string."; either
\* way the line counter grows by the number of newlines passed.
C23_StringLiteralIsOneToken ==
    [][ LET source == scanner.source_buffer
            at == scanner.current_index
            quotes == { j \in (at + 2)..Len(source) : source[j] = "\"" }
            line(to) == scanner.line_index
                          + Cardinality({ j \in (at + 2)..to : source[j] = "\n" })
            closed(close) ==
                /\ pc' = "scan"
                /\ scanner'.tokens =
                      Append(scanner.tokens,
                             Token("String", SubSeq(source, at + 2, close - 1),
                                   line(close)))
                /\ scanner'.errors_encountered = scanner.errors_encountered
                /\ scanner'.line_index = line(close)
            unterminated ==
                /\ pc' = "scan"
                /\ scanner'.tokens = scanner.tokens
                /\ scanner'.errors_encountered =
                      Append(scanner.errors_encountered,
                             SyntaxError(line(Len(source)), "Unterminated string."))
                /\ scanner'.line_index = line(Len(source))
        IN  (pc = "scan" /\ at < Len(source) /\ source[at + 1] = "\"")
                => IF quotes = {} THEN unterminated
                   ELSE closed(CHOOSE j \in quotes : \A k \in quotes : j <= k)
      ]_vars

\* C24: in the tokens a scan returns, the lexeme of every identifier or
\* keyword token is a run of letters, digits and underscores that starts at
\* a letter or underscore and stands in the source with no such character
\* after it; the token is the keyword of the reserved-word table when the
\* whole lexeme is an entry of the table and an Identifier otherwise:
\* `orchid _or or x1;` gives Identifier orchid, Identifier _or, Or,
\* Identifier x1.
C24_IdentifierIsLongestRunAndKeywordIffInTable ==
    LET source == scanner.source_buffer
        word_types == {"Identifier"} \cup { KEYWORDS[k] : k \in DOMAIN KEYWORDS }
        run(lexeme) ==
            /\ lexeme # <<>>
            /\ lexeme[1] \in Alpha
            /\ \A i \in 1..Len(lexeme) : lexeme[i] \in Alpha \cup Digit
        longest(lexeme) ==
            \E from \in 1..Len(source) :
                LET to == from + Len(lexeme) - 1
                IN  /\ to <= Len(source)
                    /\ SubSeq(source, from, to) = lexeme
                    /\ to < Len(source) => source[to + 1] \notin Alpha \cup Digit
        classified(token) ==
            token.token_type = IF token.lexeme \in DOMAIN KEYWORDS
                               THEN KEYWORDS[token.lexeme] ELSE "Identifier"
        words == SelectSeq(scanner.tokens, LAMBDA t : t.token_type \in word_types)
    IN  Returned =>
          /\ \A i \in 1..Len(scanner.tokens) :
                LET token == scanner.tokens[i]
                IN  token.token_type \in word_types
                        => /\ run(token.lexeme)
                           /\ longest(token.lexeme)
                           /\ classified(token)
          /\ source = <<"o", "r", "c", "h", "i", "d", " ", "_", "o", "r", " ",
                        "o", "r", " ", "x", "1", ";">>
                => [i \in 1..Len(words) |->
                      <<words[i].token_type, words[i].lexeme>>]
                   = << <<"Identifier", <<"o", "r", "c", "h", "i", "d">> >>,
                        <<"Identifier", <<"_", "o", "r">> >>,
                        <<"Or", <<"o", "r">> >>,
                        <<"Identifier", <<"x", "1">> >> >>

\* `orchid _or or x1;` has been scanned into tokens
C24_Witness ==
    /\ Returned
    /\ scanner.source_buffer = <<"o", "r", "c", "h", "i", "d", " ", "_", "o", "r",
                                 " ", "o", "r", " ", "x", "1", ";">>
    /\ \E i \in 1..Len(scanner.tokens) : scanner.tokens[i].token_type = "Or"

\* C25: the scan of the empty buffer does not abort, reports no error and
\* returns exactly the one Eof token; the parse of that token sequence
\* returns the empty statement list and no error.
C25_EmptyInputGivesEofThenNoStatement ==
    (scanner.source_buffer = <<>> /\ call = NoCall) =>
        /\ pc # "panic"
        /\ scanner.errors_encountered = <<>>
        /\ pc = "scan" => scanner.tokens = <<>>
        /\ pc # "scan" =>
              /\ scanner.tokens = <<Token("Eof", <<>>, 0)>>
              /\ parser.tokens = scanner.tokens
              /\ parser.statements = <<>>
              /\ parser.errors_encountered = <<>>
        /\ pc \notin {"scan", "parse"} =>
              /\ frames = <<Frame(<<>>)>>
              /\ result \in {None, Some(Ok(Nil))}

\* the parse of the tokens of the empty buffer has returned no statement
C25_Witness ==
    /\ scanner.source_buffer = <<>>
    /\ call = NoCall
    /\ pc = "interpret"
    /\ parser.tokens = <<Token("Eof", <<>>, 0)>>
    /\ frames = <<Frame(<<>>)>>

\* the declaration at the cursor as it fails or succeeds, before map_err
\* calls synchronize
Unsynchronized(self) ==
    LET matched == advance_if_token_type_matches(self, {"Var"})
    IN  IF matched # self THEN var_decl(matched) ELSE statement(self)

\* C28: when the declaration at the cursor fails at the token `at`, the
\* iteration does not abort and leaves the cursor, with the token list of
\* the failure, at the first place after `at` (at `at` itself when that is
\* Eof) where the token before the cursor is `;` or the token at the cursor
\* is class, for, fun, if, print, return, var, while or Eof, and records
\* the error; so `print ; print 1; print ;` gives the one statement
\* print 1 and two errors.
C28_SynchronizeStopsAfterSemicolonOrBeforeKeyword ==
    [][ LET failed == Unsynchronized(parser)
            tokens == failed.self.tokens
            at == failed.self.current_index
            stops == { k \in (at + 1)..(Len(tokens) - 1) :
                         \/ tokens[k].token_type = "Semicolon"
                         \/ tokens[k + 1].token_type \in
                               {"Class", "For", "Fun", "If", "Print", "Return",
                                "Var", "While", "Eof"} }
            stop == IF tokens[at + 1].token_type = "Eof" THEN at
                    ELSE CHOOSE k \in stops : \A j \in stops : k <= j
            resumed ==
                /\ pc' = "parse"
                /\ parser' = [failed.self EXCEPT
                                !.current_index = stop,
                                !.errors_encountered = Append(@, failed.v)]
            example ==
                (/\ pc' \in {"interpret", "done"}
                 /\ scanner.source_buffer =
                       <<"p", "r", "i", "n", "t", " ", ";", " ",
                         "p", "r", "i", "n", "t", " ", "1", ";", " ",
                         "p", "r", "i", "n", "t", " ", ";">>)
                    => /\ Len(parser.errors_encountered) = 2
                       /\ parser.statements =
                            <<new_print_statement(
                                new_number_literal(Int2F(1)))>>
        IN  /\ (/\ pc = "parse"
                /\ InRange(parser)
                /\ peek(parser).token_type # "Eof"
                /\ failed.st = "err") => resumed
            /\ example
      ]_vars

\* C29: while parse runs on tokens that end with Eof, the cursor indexes
\* an existing token, the last token is the Eof token, and no iteration of
\* the loop aborts: peek finds a token, and previous() is evaluated only
\* with a token before the cursor, in synchronize too.
C29_ParseNeverAborts ==
    [][ pc = "parse" =>
          /\ InRange(parser)
          /\ parser.tokens[Len(parser.tokens)].token_type = "Eof"
          /\ pc' # "panic" ]_vars

\* the number of tokens between the cursor and Eof
Remaining(self) == Len(self.tokens) - 1 - self.current_index

\* C30: while parse runs, the number of tokens between the cursor and Eof
\* is never negative and is zero only at Eof, where the loop ends; every
\* iteration of the loop, its declaration a success or a failure followed
\* by synchronize, makes that number strictly smaller.
C30_EveryIterationConsumesTokens ==
    [][ pc = "parse" =>
          /\ Remaining(parser) >= 0
          /\ Remaining(parser) = 0 <=> peek(parser).token_type = "Eof"
          /\ parser' # parser =>
                /\ peek(parser).token_type # "Eof"
                /\ Remaining(parser') < Remaining(parser) ]_vars

\* parse has reached Eof after a declaration that failed and was followed by
\* synchronize, and one that succeeded
C30_Witness ==
    /\ pc = "parse"
    /\ Remaining(parser) = 0
    /\ parser.errors_encountered # <<>>
    /\ parser.statements # <<>>

(***************************************************************************)
(* Claims about the binary (SpecRun)                                        *)
(***************************************************************************)
\* C26: when the run of a file has ended and the scan or the parse of the
\* file's contents reported an error, run returned an Err to main and the
\* process exited with the failure status 65.
C26_FileRunFailsOnAnyError ==
    ( /\ call.op = "run_file"
      /\ pc = "exit"
      /\ \/ scanner.errors_encountered # <<>>
         \/ parser.errors_encountered # <<>> )
        => /\ ~result[1].ok
           /\ process.status = Some(65)

\* C27: an iteration of the prompt loop that reads end-of-input, or a line
\* that is exit, exit(), quit or quit() once its trailing whitespace is
\* trimmed, ends run_prompt with Ok(()), and main then exits with status 0;
\* an iteration that reads any other line runs the trimmed line; the run
\* of a line does not abort and, once it has returned, Ok or Err, the loop
\* prompts again; the run of an empty line writes nothing to stderr.
C27_PromptLoopEndsOnExitWordsOnly ==
    [][ LET reading == pc = "prompt"
            line == Head(process.stdin)
            ends == process.stdin = <<>> \/ trim_end(line) \in ExitWords
            running == call.op = "run_prompt" /\ pc \in {"scan", "parse", "done"}
        IN  /\ (reading /\ ends) => pc' = "returned" /\ result' = Some(Ok(Nil))
            /\ (pc = "returned" /\ call.op = "run_prompt")
                  => pc' = "exit" /\ process'.status = Some(0)
            /\ (reading /\ ~ends) =>
                  /\ pc' = "scan"
                  /\ scanner' = NewScanner(trim_end(line))
                  /\ process'.stdin = Tail(process.stdin)
            /\ running => pc' # "panic"
            /\ (pc = "ran" /\ call.op = "run_prompt") => pc' = "prompt"
            /\ (running /\ scanner.source_buffer = <<>>)
                  => process'.stderr = process.stderr
      ]_vars

====
